---- MODULE Spec2Model ----
(***************************************************************************)
(* A model of PacificaBot (src/pacifica_bot.py): the leverage reconciler,  *)
(* the position/order lifecycle manager, the fill reconciliation engine,   *)
(* the trading cycle and the run loop, against a nondeterministic          *)
(* exchange.                                                               *)
(*                                                                         *)
(* The bot is a single coroutine.  pc is its position, stack the return    *)
(* addresses of the calls in progress.  The exchange (ex* variables) is    *)
(* the environment: it accepts, rejects or blocks every request and fills  *)
(* resting orders on its own.                                              *)
(***************************************************************************)
EXTENDS Integers, Sequences, FiniteSets, TLC

(***************************************************************************)
(* Bounds of the model                                                     *)
(***************************************************************************)
\* largest max_leverage of a market in the modelled market metadata
MaxLev == 3
\* order ids the exchange hands out (orders open or remembered at one time)
MaxOrders == 3
MaxEntries == 1
MaxRetries == 3
MaxBalance == 40
MaxPercent == 12
MaxAmount == 130
\* amount of an entry order, in units of 1% of a whole order
EntryAmount == 100

(***************************************************************************)
(* Configuration and market metadata                                       *)
(***************************************************************************)
\* Config.markets
Markets == <<"BTC", "ETH">>

MarketSet == {Markets[i] : i \in 1..Len(Markets)}

\* MarketInfo.max_leverage of each market
market_max_leverage(m) == IF m = Markets[1] THEN MaxLev ELSE MaxLev - 1

Flat == [amount |-> 0, entry_price |-> 0]

VARIABLES
    pc,                 \* position of the bot coroutine
    stack,              \* return addresses of the calls in progress
    exPos,              \* exchange: position of each market (signed amount, entry price)
    exLev,              \* exchange: leverage applied to each market
    current_leverage,   \* self.current_leverage
    symbol,             \* set_leverage: argument symbol
    requested,          \* set_leverage: argument leverage as passed by the caller
    leverage,           \* set_leverage: local leverage (raised / clamped)
    current_position_leverage, \* set_leverage: pre-check result, 0 = None
    max_leverage,       \* set_leverage: max_leverage fetched for the scan, 0 = None
    test_leverage,      \* set_leverage: scan variable
    sl_result,          \* set_leverage: returned value ("True", "False", "None"), "" while running
    primary_request,    \* history: value of the primary update_leverage request, 0 = none sent
    primary_accepted,   \* history: the exchange accepted the primary request
    lev_requests,       \* history: update_leverage requests sent, each with the open position's leverage
    floor_at_call,      \* history: leverage of the symbol's open position when set_leverage was called, 0 = flat
    exOrders,           \* exchange: the open orders
    exHistory,          \* exchange: the order history (orders no longer open)
    market,             \* trading_cycle / _wait_for_order_fill: the selected market
    side,               \* trading_cycle / _wait_for_order_fill: "bid" or "ask"
    size_usd,           \* position_size_usd, the leveraged order notional
    current_price,      \* trading_cycle: mark price read before sizing
    limit_price,        \* limit price of the entry order, 0 = None (market order)
    order_result,       \* the dict place_order returned for the entry order
    order_id,           \* _wait_for_order_fill: the order being tracked
    elapsed,            \* _wait_for_order_fill: seconds since the tracked order was placed
    total_elapsed,      \* _wait_for_order_fill: seconds since the wait began
    repositioned,       \* _wait_for_order_fill: the one reposition has happened
    wf_result,          \* _wait_for_order_fill: returned price, 0 = None
    wf_exit,            \* history: the return statement the wait left by, "" while running
    poll_failure,       \* history: the query of the latest poll that raised, if one did
    seen_position,      \* history: the target symbol's entry of the latest poll's positions query
    cancel_requests,    \* history: order ids cancel_order was called with during the wait, in order
    repositions,        \* history: times the reposition branch ran during the wait
    use_maker_orders,   \* config.use_maker_orders
    total_volume,       \* self.total_volume, in cents
    total_pnl,          \* self.total_pnl, in cents
    trades_count,       \* self.trades_count
    cached_balance,     \* self.cached_balance in cents, 0 = not set
    balance_attempt,    \* run: loop variable attempt of the balance loop
    market_index,       \* run: next market of the set_leverage loop
    entries,            \* entry orders of trading_cycle the exchange has taken
    cycle_result,       \* value the latest trading_cycle returned
    entry_price,        \* trading_cycle: price the wait returned
    hold_time,          \* _hold_position: argument, seconds
    hold_elapsed,       \* _hold_position: local elapsed
    hold_exit,          \* _hold_position: why the hold ended
    tp_sl_set,          \* trading_cycle: what set_position_tpsl returned, "" before the call
    hold_price,         \* _hold_position: the current_price its last poll read, 0 for None
    gw_query,           \* gateway: the query a caller makes
    gw_retries,         \* gateway: the retries argument of the query
    gw_outs,            \* gateway: what each attempt of the query meets
    gw_result,          \* gateway: what the query returned and after how many attempts
    sz_percent,         \* sizing: position_percent, the sampled fraction in tenths
    sz_base,            \* sizing: position_size_base, the unleveraged notional
    rl_amount,          \* round_to_lot: the amount argument, in units of 1e-7
    rl_lot_size,        \* round_to_lot: the lot_size argument, in units of 1e-7
    rl_result,          \* round_to_lot: the number the returned string reads as
    funding_seen,       \* select_best_market / determine_side: what get_funding_rate gives per market
    selected_market,    \* select_best_market: the argument of determine_side, the returned market
    determined_side,    \* determine_side: what it returned, "unset" before the call
    close_symbol,       \* close_position: argument symbol
    close_result,       \* close_position: returned value
    close_all_result,   \* close_all_positions: returned value
    position_closed,    \* close_position: local position_closed of the re-poll
    to_close,           \* close_all_positions / run: positions still to visit
    exTpsl,             \* exchange: markets whose position has TP/SL orders attached
    cycle_calls,        \* history: what the body of the current trading_cycle has called
    run_calls           \* history: trading_cycle / place_order calls since run() began

exVars == <<exPos, exLev, exOrders, exHistory>>
slLocals == <<symbol, requested, leverage, current_position_leverage, max_leverage,
              test_leverage, sl_result, primary_request, primary_accepted, lev_requests,
              floor_at_call>>
wfArgs == <<market, side, size_usd, current_price, order_result>>
wfLocals == <<limit_price, order_id, elapsed, total_elapsed, repositioned, wf_result, wf_exit,
              seen_position, poll_failure, cancel_requests, repositions>>

gwVars == <<gw_query, gw_retries, gw_outs, gw_result>>
fnVars == <<sz_percent, sz_base, rl_amount, rl_lot_size, rl_result, funding_seen,
            selected_market, determined_side>>
runVars == <<use_maker_orders, total_volume, total_pnl, trades_count, cached_balance,
             balance_attempt, market_index, entries, cycle_result>>
cyLocals == <<entry_price, hold_time, hold_elapsed, hold_exit, hold_price, tp_sl_set, cycle_calls>>
cpLocals == <<close_symbol, close_result, close_all_result, position_closed, to_close>>

vars == <<pc, stack, exVars, current_leverage, slLocals, wfArgs, wfLocals, runVars, cyLocals,
          cpLocals, exTpsl, run_calls, gwVars, fnVars>>

\* what set_leverage never touches
slFrame == <<exPos, exOrders, exHistory, wfArgs, wfLocals, runVars, cyLocals, cpLocals, exTpsl,
             run_calls, gwVars, fnVars>>
\* what _wait_for_order_fill never touches
wfFrame == <<exLev, current_leverage, slLocals, wfArgs, runVars, cyLocals, cpLocals, exTpsl,
             gwVars, fnVars>>

(***************************************************************************)
(* Market Data Gateway                                                     *)
(***************************************************************************)
\* what one attempt of a query can meet: an answer, a rate-limit block
\* (403 / CloudFront / undecodable JSON), or any other exception
AttemptOutcomes == {"ok", "blocked", "error"}

\* the PositionInfo list the exchange answers with: the non-flat markets
RECURSIVE live_positions_from(_, _, _)
live_positions_from(i, pos, lev) ==
    IF i > Len(Markets) THEN <<>>
    ELSE LET m == Markets[i] IN
         (IF pos[m].amount # 0
            THEN <<[symbol |-> m, amount |-> pos[m].amount,
                    entry_price |-> pos[m].entry_price, leverage |-> lev[m]]>>
            ELSE <<>>) \o live_positions_from(i + 1, pos, lev)

live_positions == live_positions_from(1, exPos, exLev)

\* get_positions: the retry loop over the attempts' outcomes
\* get_positions with a further attempt after an error that is not a block
RECURSIVE get_positions_retrying_errors(_, _, _, _)
get_positions_retrying_errors(outs, attempt, retries, live) ==
    IF attempt >= retries THEN [result |-> <<>>, attempts |-> attempt, degraded |-> FALSE]
    ELSE IF outs[attempt + 1] = "ok"
      THEN [result |-> live, attempts |-> attempt + 1, degraded |-> FALSE]
    ELSE IF attempt < retries - 1
      THEN get_positions_retrying_errors(outs, attempt + 1, retries, live)
    ELSE [result |-> <<>>, attempts |-> attempt + 1, degraded |-> TRUE]

RECURSIVE get_positions_attempt(_, _, _, _)
get_positions_attempt(outs, attempt, retries, live) ==
    IF attempt >= retries THEN [result |-> <<>>, attempts |-> attempt, degraded |-> FALSE]
    ELSE IF outs[attempt + 1] = "ok"
      THEN [result |-> live, attempts |-> attempt + 1, degraded |-> FALSE]
    ELSE IF outs[attempt + 1] = "blocked"
      THEN IF attempt < retries - 1
             THEN get_positions_attempt(outs, attempt + 1, retries, live)
             ELSE [result |-> <<>>, attempts |-> attempt + 1, degraded |-> TRUE]
    ELSE [result |-> <<>>, attempts |-> attempt + 1, degraded |-> TRUE]

get_positions(outs, retries, live) == get_positions_attempt(outs, 0, retries, live)

\* every list a get_positions(retries) call can return now
get_positions_results(retries) ==
    {get_positions(outs, retries, live_positions).result :
        outs \in [1..retries -> AttemptOutcomes]}

\* the first non-flat position of the symbol in a positions list, or Flat
RECURSIVE find_position(_, _, _)
find_position(positions, m, i) ==
    IF i > Len(positions) THEN [symbol |-> m, amount |-> 0, entry_price |-> 0, leverage |-> 0]
    ELSE IF positions[i].symbol = m /\ positions[i].amount # 0 THEN positions[i]
    ELSE find_position(positions, m, i + 1)

\* get_markets: the metadata, or [] when the request raised
get_markets_results == {"markets", "empty"}

\* get_max_leverage: 0 stands for None
get_max_leverage(markets, m) == IF markets = "markets" THEN market_max_leverage(m) ELSE 0

(***************************************************************************)
(* Exchange: update_leverage                                               *)
(***************************************************************************)
\* the leverage rule of the exchange: within the market's limits, and never
\* below the leverage of an open position
can_accept_leverage(m, v) ==
    /\ v >= 1
    /\ v <= market_max_leverage(m)
    /\ (exPos[m].amount # 0 => v >= exLev[m])

\* ApiError with an invalid-leverage message or code 400, any other ApiError,
\* another exception naming invalid leverage, any other exception
update_leverage_outcomes(m, v) ==
    (IF can_accept_leverage(m, v) THEN {"ok"} ELSE {})
        \cup {"api_invalid", "api_other", "exc_invalid", "exc_other"}

position_floor(m) == IF exPos[m].amount # 0 THEN exLev[m] ELSE 0

(***************************************************************************)
(* Leverage Reconciler: set_leverage                                       *)
(***************************************************************************)
\* return from the call in progress
Return == /\ pc' = Head(stack)
          /\ stack' = Tail(stack)

\* the value of the primary request: raised to the open position's leverage,
\* then clamped to [1, max_leverage] when the metadata is there (ml # 0)
primary_leverage_no_floor(lev, cpl, ml) ==
    IF ml # 0 THEN (IF lev > ml THEN ml ELSE IF lev < 1 THEN 1 ELSE lev) ELSE lev

primary_leverage_no_clamp(lev, cpl, ml) ==
    IF cpl # 0 /\ lev < cpl THEN cpl ELSE lev

primary_leverage(lev, cpl, ml) ==
    LET floored == IF cpl # 0 /\ lev < cpl THEN cpl ELSE lev
    IN IF ml # 0
         THEN (IF floored > ml THEN ml ELSE IF floored < 1 THEN 1 ELSE floored)
         ELSE floored

\* one update_leverage request and its effect on the exchange
send_update_leverage(v, out) ==
    /\ lev_requests' = lev_requests \cup {[value |-> v, floor |-> position_floor(symbol)]}
    /\ exLev' = IF out = "ok" THEN [exLev EXCEPT ![symbol] = v] ELSE exLev

\* lines 430-477: pre-check, clamp and primary request
set_leverage_try ==
    /\ pc = "set_leverage"
    /\ \E positions \in get_positions_results(3), markets \in get_markets_results :
         LET cpl == find_position(positions, symbol, 1).leverage
             ml  == get_max_leverage(markets, symbol)
             v   == primary_leverage(leverage, cpl, ml)
         IN /\ current_position_leverage' = cpl
            /\ IF cpl # 0 /\ leverage = cpl
                 THEN /\ sl_result' = "True"
                      /\ Return
                      /\ UNCHANGED <<exLev, leverage, max_leverage, primary_request,
                                     primary_accepted, lev_requests>>
                 ELSE \E out \in update_leverage_outcomes(symbol, v) :
                        /\ leverage' = v
                        /\ max_leverage' = ml
                        /\ primary_request' = v
                        /\ primary_accepted' = (out = "ok")
                        /\ send_update_leverage(v, out)
                        /\ IF out = "ok"
                             THEN sl_result' = "True" /\ Return
                             ELSE /\ sl_result' = ""
                                  /\ pc' = IF out \in {"api_invalid", "api_other"}
                                             THEN "set_leverage_ApiError_" \o out
                                             ELSE "set_leverage_Exception_" \o out
                                  /\ UNCHANGED stack
    /\ UNCHANGED <<current_leverage, symbol, requested, test_leverage, floor_at_call, slFrame>>

\* lines 479-563: except ApiError
set_leverage_ApiError ==
    /\ pc \in {"set_leverage_ApiError_api_invalid", "set_leverage_ApiError_api_other"}
    /\ \E positions \in get_positions_results(3), markets \in get_markets_results :
         LET current_pos_leverage == find_position(positions, symbol, 1).leverage
             has_open_position == find_position(positions, symbol, 1).amount # 0
             ml == get_max_leverage(markets, symbol)
         IN IF pc = "set_leverage_ApiError_api_invalid"
              THEN IF has_open_position /\ current_pos_leverage # 0
                     THEN IF leverage < current_pos_leverage
                            THEN sl_result' = "False" /\ Return
                                 /\ UNCHANGED <<max_leverage, test_leverage>>
                            ELSE IF ml # 0 /\ leverage + 1 <= ml
                                   THEN /\ max_leverage' = ml
                                        /\ test_leverage' = leverage + 1
                                        /\ pc' = "set_leverage_scan_up"
                                        /\ UNCHANGED <<stack, sl_result>>
                                   ELSE sl_result' = "False" /\ Return
                                        /\ UNCHANGED <<max_leverage, test_leverage>>
                     ELSE IF leverage - 1 >= 1
                            THEN /\ test_leverage' = leverage - 1
                                 /\ pc' = "set_leverage_scan_down"
                                 /\ UNCHANGED <<stack, sl_result, max_leverage>>
                            ELSE \* empty range: the handler falls off its end
                                 sl_result' = "None" /\ Return
                                 /\ UNCHANGED <<max_leverage, test_leverage>>
              ELSE sl_result' = "False" /\ Return
                   /\ UNCHANGED <<max_leverage, test_leverage>>
    /\ UNCHANGED <<exLev, current_leverage, symbol, requested, leverage,
                   current_position_leverage, primary_request, primary_accepted, lev_requests,
                   floor_at_call, slFrame>>

\* lines 565-594: except Exception
set_leverage_Exception ==
    /\ pc \in {"set_leverage_Exception_exc_invalid", "set_leverage_Exception_exc_other"}
    /\ IF pc = "set_leverage_Exception_exc_invalid"
         THEN IF leverage - 1 >= 1
                THEN /\ test_leverage' = leverage - 1
                     /\ pc' = "set_leverage_scan_down"
                     /\ UNCHANGED <<stack, sl_result>>
                ELSE sl_result' = "None" /\ Return /\ UNCHANGED test_leverage
         ELSE sl_result' = "False" /\ Return /\ UNCHANGED test_leverage
    /\ UNCHANGED <<exLev, current_leverage, symbol, requested, leverage, max_leverage,
                   current_position_leverage, primary_request, primary_accepted, lev_requests,
                   floor_at_call, slFrame>>

\* lines 515-531: one iteration of the scan upward to max_leverage
set_leverage_scan_up ==
    /\ pc = "set_leverage_scan_up"
    /\ \E out \in update_leverage_outcomes(symbol, test_leverage) :
         /\ send_update_leverage(test_leverage, out)
         /\ IF out = "ok"
              THEN /\ current_leverage' = test_leverage
                   /\ sl_result' = "True" /\ Return
                   /\ UNCHANGED test_leverage
              ELSE IF test_leverage + 1 <= max_leverage
                     THEN /\ test_leverage' = test_leverage + 1
                          /\ UNCHANGED <<pc, stack, sl_result, current_leverage>>
                     ELSE /\ sl_result' = "False" /\ Return
                          /\ UNCHANGED <<test_leverage, current_leverage>>
    /\ UNCHANGED <<symbol, requested, leverage, max_leverage, current_position_leverage,
                   primary_request, primary_accepted, floor_at_call, slFrame>>

\* lines 539-557 and 571-589: one iteration of the scan downward to 1
set_leverage_scan_down ==
    /\ pc = "set_leverage_scan_down"
    /\ \E out \in update_leverage_outcomes(symbol, test_leverage) :
         /\ send_update_leverage(test_leverage, out)
         /\ IF out = "ok"
              THEN /\ current_leverage' = test_leverage
                   /\ sl_result' = "True" /\ Return
                   /\ UNCHANGED test_leverage
              ELSE IF test_leverage = 1
                     THEN /\ sl_result' = "False" /\ Return
                          /\ UNCHANGED <<test_leverage, current_leverage>>
                     ELSE /\ test_leverage' = test_leverage - 1
                          /\ UNCHANGED <<pc, stack, sl_result, current_leverage>>
    /\ UNCHANGED <<symbol, requested, leverage, max_leverage, current_position_leverage,
                   primary_request, primary_accepted, floor_at_call, slFrame>>

(***************************************************************************)
(* Exchange: orders, fills, prices                                         *)
(***************************************************************************)
Sides == {"bid", "ask"}
Sign(sd) == IF sd = "bid" THEN 1 ELSE -1
Abs(x) == IF x < 0 THEN -x ELSE x
Min(a, b) == IF a <= b THEN a ELSE b

\* prices are integers in units of 1/Tick of the market's tick_size
Tick == 100

\* mark prices the exchange quotes (whole ticks, 1% apart)
MarkPrices == {10000 * Tick, 10100 * Tick}

\* get_current_price: a mark price, or 0 for None (prices and markets both failed)
get_current_price_results == MarkPrices \cup {0}

\* get_tick_size / get_lot_size answer, or None when get_markets failed
get_tick_size_results == {"tick", "none"}

\* the exchange's book as one value: positions, open orders, order history
Ex == [pos |-> exPos, orders |-> exOrders, history |-> exHistory]

SetEx(ex) == /\ exPos' = ex.pos
             /\ exOrders' = ex.orders
             /\ exHistory' = ex.history

\* only _wait_for_order_fill reads the order history (line 1480): outside it
\* the records are not kept
SetBook(ex) == /\ exPos' = ex.pos
               /\ exOrders' = ex.orders
               /\ exHistory' = {}

used_ids(ex) == {o.id : o \in ex.orders} \cup {h.id : h \in ex.history}
free_ids(ex) == (1..MaxOrders) \ used_ids(ex)
new_order_id(ex) == CHOOSE i \in free_ids(ex) : \A j \in free_ids(ex) : i <= j

NoOrderResult == [order_id |-> 0, price |-> 0]

\* the position of the order's market after k more units of the order fill;
\* a reduce-only order only shrinks an opposite position
position_after_fill(pos, o, k) ==
    LET a == pos[o.symbol].amount
        moved == IF o.reduce_only
                   THEN (IF a * Sign(o.side) < 0 THEN Min(k, Abs(a)) ELSE 0)
                   ELSE k
        b == a + Sign(o.side) * moved
    IN [amount |-> b,
        entry_price |-> IF b = 0 THEN 0
                        ELSE IF a = 0 \/ a * b < 0 THEN o.price
                        ELSE pos[o.symbol].entry_price]

history_record(o, f) == [id |-> o.id, initial |-> o.initial, filled |-> f, price |-> o.price]

\* the fill levels a resting order can move to next
fill_levels(ex, o) ==
    IF o.reduce_only
      THEN (IF ex.pos[o.symbol].amount * Sign(o.side) < 0 THEN {o.initial} ELSE {})
      ELSE {f \in {o.initial \div 2, (o.initial * 99) \div 100, o.initial} : f > o.filled}

\* the exchange fills an order up to level f; a wholly filled order leaves the book
ex_fill(ex, o, f) ==
    [pos |-> [ex.pos EXCEPT ![o.symbol] = position_after_fill(ex.pos, o, f - o.filled)],
     orders |-> IF f = o.initial THEN ex.orders \ {o}
                ELSE (ex.orders \ {o}) \cup {[o EXCEPT !.filled = f]},
     history |-> IF f = o.initial THEN ex.history \cup {history_record(o, f)}
                 ELSE ex.history]

(***************************************************************************)
(* Position/Order Lifecycle Manager: place_order, cancel_order             *)
(***************************************************************************)
\* exchange.create_order: an order record, no data, or an exception
create_order_outcomes == {"ok", "none", "raise"}

round_half_even(num, den) ==
    LET q == num \div den
        r == num % den
    IN IF 2 * r < den THEN q
       ELSE IF 2 * r > den THEN q + 1
       ELSE IF q % 2 = 0 THEN q ELSE q + 1

\* round_to_tick: round(price / tick_size) * tick_size
round_to_tick(price) == round_half_even(price, Tick) * Tick

\* the price string of a limit order: rounded when get_tick_size answers
price_str(price, tick) == IF tick = "tick" THEN round_to_tick(price) ELSE price

\* an order reaches the exchange only when the amount is positive, the
\* exchange answers with data and an order id is left
order_placed(ex, amount, out) == amount > 0 /\ out = "ok" /\ free_ids(ex) # {}

new_order(ex, sym, sd, amount, price, reduce_only) ==
    [id |-> new_order_id(ex), symbol |-> sym, side |-> sd, price |-> price,
     reduce_only |-> reduce_only, initial |-> amount, filled |-> 0, cancelled |-> 0]

orders_of(ex, sym) == {o \in ex.orders : o.symbol = sym}

\* the account's margin: an entry is sized at 80% of the balance at the
\* bot's current_leverage (lines 1218-1236), and the exchange takes an entry
\* order only while the positions and resting entry orders of the account,
\* with the new order, stay within the balance at the leverage applied to
\* the market: 125% of one entry when the two leverages agree
MaxExposure(sym) == (EntryAmount * 5 * exLev[sym]) \div (4 * current_leverage)

exposure(ex) ==
    LET resting == {o \in ex.orders : ~o.reduce_only}
        ids == {o.id : o \in resting}
        open_amount[S \in SUBSET ids] ==
            IF S = {} THEN 0
            ELSE LET i == CHOOSE x \in S : TRUE
                     o == CHOOSE x \in resting : x.id = i
                 IN (o.initial - o.filled) + open_amount[S \ {i}]
        held[i \in 0..Len(Markets)] ==
            IF i = 0 THEN 0 ELSE Abs(ex.pos[Markets[i]].amount) + held[i - 1]
    IN held[Len(Markets)] + open_amount[ids]

within_margin(ex, sym, amount) == exposure(ex) + amount <= MaxExposure(sym)

entry_order_outcomes(ex, sym, amount) ==
    IF within_margin(ex, sym, amount) THEN create_order_outcomes
    ELSE create_order_outcomes \ {"ok"}

\* place_order, lines 698-758, limit branch (a price is known and
\* use_maker_orders is set): the order rests on the book
place_limit_order(ex, sym, sd, amount, price, reduce_only, tick, out) ==
    IF order_placed(ex, amount, out)
      THEN [ex EXCEPT !.orders = ex.orders \cup
              {new_order(ex, sym, sd, amount, price_str(price, tick), reduce_only)}]
      ELSE ex

\* place_order, lines 698-758, market branch: the order executes at once
place_market_order(ex, sym, sd, amount, price, reduce_only, out) ==
    IF order_placed(ex, amount, out)
      THEN LET o == new_order(ex, sym, sd, amount, price, reduce_only)
           IN ex_fill([ex EXCEPT !.orders = ex.orders \cup {o}], o, o.initial)
      ELSE ex

\* the dict place_order returns; resp_price is the price field of the response
place_order_result(ex, amount, out, resp_price) ==
    IF order_placed(ex, amount, out)
      THEN [order_id |-> new_order_id(ex), price |-> resp_price]
      ELSE NoOrderResult

\* exchange.cancel_order: a result, no result, or an exception; only an open
\* order can be cancelled
cancel_order_outcomes(ex, oid) ==
    (IF \E o \in ex.orders : o.id = oid THEN {"ok"} ELSE {}) \cup {"none", "raise"}

\* cancel_order: lines 760-771
cancel_order(ex, oid, out) ==
    IF out = "ok"
      THEN LET o == CHOOSE x \in ex.orders : x.id = oid
           IN [ex EXCEPT !.orders = ex.orders \ {o},
                         !.history = ex.history \cup {history_record(o, o.filled)}]
      ELSE ex

(***************************************************************************)
(* Trade Orchestrator: sizing of the entry order (trading_cycle)           *)
(***************************************************************************)
\* account balance the exchange reports, in cents
Balance == 10000

\* get_balance: the balance, or 0 for None
get_balance_results == {0, Balance}

\* config.get_random_position_size, in tenths of the balance
position_percents == {8}

\* fee rate in units of 0.0001: maker 0.0002, taker 0.0005
fee_rate(maker) == IF maker THEN 2 ELSE 5

\* available_balance / (1 + fee_rate * 2) with safety_buffer 0.05
max_position_base(balance, maker) == (balance * 9500) \div (10000 + 2 * fee_rate(maker))

\* position_size_base without the min of line 1231
position_size_base_unclamped(balance, percent, maker) == (balance * percent) \div 10

\* lines 1213-1249: the unleveraged notional of the entry
position_size_base(balance, percent, maker) ==
    LET base == Min((balance * percent) \div 10, max_position_base(balance, maker))
    IN IF base * (10000 + 2 * fee_rate(maker)) > balance * 10000
         THEN Min((balance * percent) \div 10, max_position_base(balance, maker))
         ELSE base

\* the order notional: position_size_base * current_leverage
position_size_usd(balance, percent, maker, lev) ==
    position_size_base(balance, percent, maker) * lev

(***************************************************************************)
(* Market Data Gateway: round_to_lot                                       *)
(* Amounts and lot sizes are decimal fixed-point numbers, in units of      *)
(* 10^-UnitDecimals.                                                       *)
(***************************************************************************)
UnitDecimals == 7

RECURSIVE Pow10(_)
Pow10(k) == IF k <= 0 THEN 1 ELSE 10 * Pow10(k - 1)

\* the number of decimal digits of n > 0
RECURSIVE NumDigits(_)
NumDigits(n) == IF n < 10 THEN 1 ELSE 1 + NumDigits(n \div 10)

\* n > 0 without its trailing zeros
RECURSIVE StripZeros(_)
StripZeros(n) == IF n % 10 = 0 THEN StripZeros(n \div 10) ELSE n

\* str(lot_size): the decimal exponent of the leading digit and the number
\* of significant digits of the float's shortest form
lot_exponent(lot) == NumDigits(lot) - 1 - UnitDecimals
lot_digits(lot) == NumDigits(StripZeros(lot))

\* len(str(lot_size).split('.')[-1]), line 386. str() of a float below 1e-4
\* is in exponent form: "3e-06" has no point and counts whole (5), "1.5e-05"
\* leaves "5e-05"; otherwise the count is that of the digits after the point,
\* "0" when the value is whole ("10.0").
str_fraction_len(lot) ==
    IF lot_exponent(lot) < -4
      THEN IF lot_digits(lot) = 1 THEN 5 ELSE lot_digits(lot) + 3
    ELSE IF lot_digits(lot) - 1 - lot_exponent(lot) <= 0 THEN 1
    ELSE lot_digits(lot) - 1 - lot_exponent(lot)

\* f"{rounded:.{d}f}": the value to d decimals, to nearest; a decimal tie is
\* decided by the binary expansion of the float, on either side. The
\* rstrip('0').rstrip('.') of line 386 leave the number the string reads as.
format_fixed(v, d) ==
    IF d >= UnitDecimals THEN {v}
    ELSE LET q == Pow10(UnitDecimals - d)
             r == v % q
         IN IF 2 * r < q THEN {v - r}
            ELSE IF 2 * r > q THEN {v - r + q}
            ELSE {v - r, v - r + q}

\* amount // lot_size, line 384: the floor of the quotient of the two floats;
\* for an amount that is a decimal multiple of the lot the float quotient can
\* fall below the whole number (1.0 // 0.1 is 9.0)
floor_div(amount, lot) ==
    IF amount % lot = 0 /\ amount > 0
      THEN {amount \div lot, amount \div lot - 1}
      ELSE {amount \div lot}

\* the amounts whose lot multiple is a decimal tie at the precision of the
\* format
decimal_tie(amount, lot) ==
    /\ lot > 0
    /\ \E k \in floor_div(amount, lot) : Cardinality(format_fixed(k * lot, str_fraction_len(lot))) > 1

\* round_to_lot, lines 379-386: the numbers the returned string can read as
round_to_lot(amount, lot) ==
    IF lot <= 0 THEN {amount}
    ELSE UNION {format_fixed(k * lot, str_fraction_len(lot)) : k \in floor_div(amount, lot)}

(***************************************************************************)
(* Fill Reconciliation Engine: _wait_for_order_fill                        *)
(***************************************************************************)
\* default arguments and constants of _wait_for_order_fill, in seconds
max_wait == 300
reposition_timeout == 90
check_interval == 5
\* slippages in units of 0.0001: the sampled current_slippage and the
\* fixed aggressive_slippage of a reposition
current_slippage == 5
aggressive_slippage == 1

\* price * (1 -/+ slippage): below the mark for a buy, above for a sell
\* (the mark is a whole number of ticks, so the product is exact)
slipped_price(price, sd, slippage) ==
    ((price \div Tick) * (10000 - Sign(sd) * slippage)) \div (10000 \div Tick)

NoPosition(m) == [symbol |-> m, amount |-> 0, entry_price |-> 0, leverage |-> 0]

wf_return(price, how) ==
    /\ wf_result' = price
    /\ wf_exit' = how
    /\ Return

\* info.get_open_orders inside the poll: the list, or an exception
open_orders_outcomes == {"list", "raise"}

\* info.get_order_history_by_id: an exception, no item, or the order's record
\* with or without a price
history_results(oid) ==
    {[kind |-> "raise", initial |-> 0, filled |-> 0, price |-> 0],
     [kind |-> "empty", initial |-> 0, filled |-> 0, price |-> 0]}
    \cup UNION {{[kind |-> "item", initial |-> h.initial, filled |-> h.filled, price |-> pr] :
                   pr \in {0, h.price}} : h \in {x \in exHistory : x.id = oid}}

\* line 1458: at most 1% of the order remains, or at least 99% is filled
order_effectively_filled(o) ==
    /\ o.initial > 0
    /\ \/ (o.initial - o.filled - o.cancelled) * 100 <= o.initial
       \/ o.filled * 100 >= 99 * o.initial

\* a history record that counts as filled from its first fill
history_filled_any(h) == h.kind = "item" /\ h.initial > 0 /\ h.filled > 0

\* line 1490
history_filled(h) == h.kind = "item" /\ h.initial > 0 /\ h.filled * 100 >= h.initial * 99

Unresolved == [done |-> FALSE, price |-> 0, how |-> ""]
Resolved(price, how) == [done |-> TRUE, price |-> price, how |-> how]

\* a poll that skips the positions check of lines 1415-1432
poll_decision_without_positions(positions, oo, positions2, hist) ==
    LET p2 == find_position(positions2, market, 1)
        mine == {o \in exOrders : o.id = order_id}
    IN IF oo = "raise" THEN Unresolved
       ELSE IF mine # {}
         THEN LET o == CHOOSE x \in mine : TRUE
              IN IF order_effectively_filled(o)
                   THEN IF p2.amount # 0 THEN Resolved(p2.entry_price, "confirmed")
                        ELSE Resolved(o.price, "open_order")
                   ELSE Unresolved
       ELSE IF history_filled(hist)
         THEN Resolved(IF hist.price # 0 THEN hist.price ELSE limit_price, "history")
       ELSE Unresolved

\* a poll that takes a failed open-orders query for an empty list and goes
\* on to the history
poll_decision_raise_is_not_found(positions, oo, positions2, hist) ==
    LET p == find_position(positions, market, 1)
        p2 == find_position(positions2, market, 1)
        mine == {o \in exOrders : o.id = order_id /\ oo # "raise"}
    IN IF p.amount # 0 THEN Resolved(p.entry_price, "position")
       ELSE IF mine # {}
         THEN LET o == CHOOSE x \in mine : TRUE
              IN IF order_effectively_filled(o)
                   THEN IF p2.amount # 0 THEN Resolved(p2.entry_price, "confirmed")
                        ELSE Resolved(o.price, "open_order")
                   ELSE Unresolved
       ELSE IF history_filled(hist)
         THEN Resolved(IF hist.price # 0 THEN hist.price ELSE limit_price, "history")
       ELSE Unresolved

\* lines 1414-1504, one poll: positions first, then open orders, then history
poll_decision(positions, oo, positions2, hist) ==
    LET p == find_position(positions, market, 1)
        p2 == find_position(positions2, market, 1)
        mine == {o \in exOrders : o.id = order_id}
    IN IF p.amount # 0 THEN Resolved(p.entry_price, "position")
       ELSE IF oo = "raise" THEN Unresolved
       ELSE IF mine # {}
         THEN LET o == CHOOSE x \in mine : TRUE
              IN IF order_effectively_filled(o)
                   THEN IF p2.amount # 0 THEN Resolved(p2.entry_price, "confirmed")
                        ELSE Resolved(o.price, "open_order")
                   ELSE Unresolved
       ELSE IF history_filled(hist)
         THEN Resolved(IF hist.price # 0 THEN hist.price ELSE limit_price, "history")
       ELSE Unresolved

\* the query of the poll that raised: the open-orders request (except of
\* line 1500) or the history lookup (except of line 1497), which is made
\* only when the order id is not among the open orders
poll_raised(positions, oo, hist) ==
    IF find_position(positions, market, 1).amount # 0 THEN ""
    ELSE IF oo = "raise" THEN "open_orders"
    ELSE IF {o \in exOrders : o.id = order_id} = {} /\ hist.kind = "raise" THEN "history"
    ELSE ""

\* the test of line 1518 without its "not repositioned" conjunct
reposition_due_again(e, r, t) == e >= reposition_timeout /\ t < max_wait - 60

\* line 1518
reposition_due(e, r, t) == e >= reposition_timeout /\ ~r /\ t < max_wait - 60

\* a market branch that does not look at the placement response
wait_start_market_ignores_response ==
    /\ pc = "_wait_for_order_fill"
    /\ IF order_result.order_id = 0
         THEN wf_return(0, "no_order_id") /\ UNCHANGED <<order_id, elapsed, total_elapsed,
                                                          repositioned>>
       ELSE IF limit_price = 0
         THEN /\ \E positions \in get_positions_results(3) :
                   LET p == find_position(positions, market, 1)
                   IN IF p.amount # 0
                        THEN wf_return(p.entry_price, "market_position")
                        ELSE wf_return(0, "market_none")
              /\ order_id' = order_result.order_id
              /\ UNCHANGED <<elapsed, total_elapsed, repositioned>>
       ELSE /\ order_id' = order_result.order_id
            /\ elapsed' = 0
            /\ total_elapsed' = 0
            /\ repositioned' = FALSE
            /\ pc' = "wait_poll"
            /\ UNCHANGED <<stack, wf_result, wf_exit>>
    /\ UNCHANGED <<exPos, exOrders, exHistory, limit_price, seen_position, poll_failure,
                   cancel_requests, repositions, run_calls, wfFrame>>

\* lines 1364-1408: order id, the market-order branch, the loop's locals
wait_start ==
    /\ pc = "_wait_for_order_fill"
    /\ IF order_result.order_id = 0
         THEN wf_return(0, "no_order_id") /\ UNCHANGED <<order_id, elapsed, total_elapsed,
                                                          repositioned>>
       ELSE IF limit_price = 0
         THEN /\ IF order_result.price > 0
                   THEN wf_return(order_result.price, "market_response")
                   ELSE \E positions \in get_positions_results(3) :
                          LET p == find_position(positions, market, 1)
                          IN IF p.amount # 0
                               THEN wf_return(p.entry_price, "market_position")
                               ELSE wf_return(0, "market_none")
              /\ order_id' = order_result.order_id
              /\ UNCHANGED <<elapsed, total_elapsed, repositioned>>
       ELSE /\ order_id' = order_result.order_id
            /\ elapsed' = 0
            /\ total_elapsed' = 0
            /\ repositioned' = FALSE
            /\ pc' = "wait_poll"
            /\ UNCHANGED <<stack, wf_result, wf_exit>>
    /\ UNCHANGED <<exPos, exOrders, exHistory, limit_price, seen_position, poll_failure,
                   cancel_requests,
                   repositions, run_calls, wfFrame>>

\* lines 1408-1518: one poll of the three sources and the reposition test
wait_poll ==
    /\ pc = "wait_poll"
    /\ \E positions \in get_positions_results(2), oo \in open_orders_outcomes,
          positions2 \in get_positions_results(3), hist \in history_results(order_id) :
         LET d == poll_decision(positions, oo, positions2, hist)
         IN /\ seen_position' = find_position(positions, market, 1)
            /\ poll_failure' = poll_raised(positions, oo, hist)
            /\ IF d.done
                 THEN wf_return(d.price, d.how)
                 ELSE /\ pc' = IF reposition_due(elapsed, repositioned, total_elapsed)
                                 THEN "wait_reposition" ELSE "wait_sleep"
                      /\ UNCHANGED <<stack, wf_result, wf_exit>>
    /\ UNCHANGED <<exPos, exOrders, exHistory, limit_price, order_id, elapsed, total_elapsed,
                   repositioned, cancel_requests, repositions, run_calls, wfFrame>>

\* lines 1518-1559: cancel the stale order, place the replacement nearer the mark
wait_reposition ==
    /\ pc = "wait_reposition"
    /\ \E cout \in cancel_order_outcomes(Ex, order_id), ncp \in get_current_price_results,
          tick \in get_tick_size_results, tick2 \in get_tick_size_results,
          pout \in create_order_outcomes :
         LET ex1 == cancel_order(Ex, order_id, cout)
             new_current_price == IF ncp = 0 THEN current_price ELSE ncp
             new_limit_price ==
                 price_str(slipped_price(new_current_price, side, aggressive_slippage), tick)
             new_order_result == place_order_result(ex1, EntryAmount, pout, 0)
         IN /\ pout \in entry_order_outcomes(ex1, market, EntryAmount)
            /\ SetEx(place_limit_order(ex1, market, side, EntryAmount, new_limit_price,
                                       FALSE, tick2, pout))
            /\ cancel_requests' = Append(cancel_requests, order_id)
            /\ repositions' = repositions + 1
            /\ IF new_order_result.order_id # 0
                 THEN /\ order_id' = new_order_result.order_id
                      /\ limit_price' = new_limit_price
                      /\ repositioned' = TRUE
                      /\ elapsed' = 0
                      /\ pc' = "wait_sleep"
                      /\ UNCHANGED <<stack, wf_result, wf_exit>>
                 ELSE /\ wf_return(0, "reposition_failed")
                      /\ UNCHANGED <<order_id, limit_price, repositioned, elapsed>>
    /\ run_calls' = run_calls \cup {"place_order"}
    /\ poll_failure' = ""
    /\ UNCHANGED <<total_elapsed, seen_position, wfFrame>>

\* a loop that sleeps without advancing its clocks
wait_sleep_without_clock ==
    /\ pc = "wait_sleep"
    /\ elapsed' = elapsed
    /\ total_elapsed' = total_elapsed
    /\ pc' = IF total_elapsed < max_wait THEN "wait_poll" ELSE "wait_timeout"
    /\ UNCHANGED <<stack, exPos, exOrders, exHistory, limit_price, order_id, repositioned,
                   wf_result, wf_exit, seen_position, cancel_requests, repositions, run_calls,
                   wfFrame>>
    /\ poll_failure' = ""

\* lines 1591-1593 and the loop test of line 1408
wait_sleep ==
    /\ pc = "wait_sleep"
    /\ elapsed' = elapsed + check_interval
    /\ total_elapsed' = total_elapsed + check_interval
    /\ pc' = IF total_elapsed + check_interval < max_wait THEN "wait_poll" ELSE "wait_timeout"
    /\ UNCHANGED <<stack, exPos, exOrders, exHistory, limit_price, order_id, repositioned,
                   wf_result, wf_exit, seen_position, cancel_requests, repositions, run_calls,
                   wfFrame>>
    /\ poll_failure' = ""

\* the timeout exit without the cancel_order call of line 1600
wait_timeout_without_cancel ==
    /\ pc = "wait_timeout"
    /\ wf_return(0, "timeout")
    /\ UNCHANGED <<exPos, exOrders, exHistory, cancel_requests, limit_price, order_id, elapsed,
                   total_elapsed, repositioned, seen_position, poll_failure, repositions,
                   run_calls, wfFrame>>

\* lines 1595-1606: max_wait is used up: cancel the order, no fill
wait_timeout ==
    /\ pc = "wait_timeout"
    /\ \E cout \in cancel_order_outcomes(Ex, order_id) :
         SetEx(cancel_order(Ex, order_id, cout))
    /\ cancel_requests' = Append(cancel_requests, order_id)
    /\ wf_return(0, "timeout")
    /\ UNCHANGED <<limit_price, order_id, elapsed, total_elapsed, repositioned, seen_position,
                   poll_failure, repositions, run_calls, wfFrame>>

(***************************************************************************)
(* The exchange acts while the bot sleeps                                  *)
(***************************************************************************)
SleepPoints ==
    {"run_set_leverage", "run_balance", "run_loop", "close_position_sleep", "close_all_next",
     "cleanup_sleep", "cleanup_done", "wait_sleep", "cycle_tpsl_sleep", "hold_sleep",
     "cycle_exit_sleep", "run_final_sleep", "run_final_check", "run_final_next"}

exchange_fills ==
    /\ pc \in SleepPoints
    /\ \E o \in exOrders : \E f \in fill_levels(Ex, o) : 
         IF pc = "wait_sleep" THEN SetEx(ex_fill(Ex, o, f)) ELSE SetBook(ex_fill(Ex, o, f))
    /\ UNCHANGED <<pc, stack, exLev, current_leverage, slLocals, wfArgs, wfLocals, runVars,
                   cyLocals, cpLocals, exTpsl, run_calls>>
    /\ UNCHANGED <<gwVars, fnVars>>

\* a TP/SL order attached to a position closes it
exchange_tpsl ==
    /\ pc \in SleepPoints
    /\ \E m \in exTpsl :
         /\ exPos[m].amount # 0
         /\ exPos' = [exPos EXCEPT ![m] = Flat]
         /\ exTpsl' = exTpsl \ {m}
    /\ UNCHANGED <<pc, stack, exLev, exOrders, exHistory, current_leverage, slLocals, wfArgs,
                   wfLocals, runVars, cyLocals, cpLocals, run_calls>>
    /\ UNCHANGED <<gwVars, fnVars>>

(***************************************************************************)
(* Position/Order Lifecycle Manager: close_position, close_all_positions,  *)
(* cancel_all_orders                                                       *)
(***************************************************************************)
\* what the lifecycle manager never touches
cpFrame == <<exLev, current_leverage, slLocals, wfArgs, wfLocals, runVars, cyLocals, exTpsl,
             gwVars, fnVars>>

\* get_open_orders(symbol): the symbol's open orders, or [] when the query raised
get_open_orders_results(ex, sym) == {orders_of(ex, sym), {}}

\* cancel_order on each order of a list; the exchange cancels those in done
cancel_each(ex, done) ==
    [ex EXCEPT !.orders = ex.orders \ done,
               !.history = ex.history \cup {history_record(o, o.filled) : o \in done}]

\* the exchange, or the account's owner from another session, cancels a
\* resting order while _wait_for_order_fill sleeps; what the order had
\* filled stays in its history record
exchange_cancels ==
    /\ pc = "wait_sleep"
    /\ \E o \in exOrders : SetEx(cancel_each(Ex, {o}))
    /\ UNCHANGED <<pc, stack, exLev, current_leverage, slLocals, wfArgs, wfLocals, runVars,
                   cyLocals, cpLocals, exTpsl, run_calls>>
    /\ UNCHANGED <<gwVars, fnVars>>

\* exchange.cancel_all_orders: a result with data, a result without, an
\* ApiError or another exception
cancel_all_orders_outcomes == {"ok", "no_data", "api_error", "exception"}

cancel_all_orders(ex, out) == IF out = "ok" THEN cancel_each(ex, ex.orders) ELSE ex

\* the base amount of a close order: size_usd = amount * p1 at the price
\* close_position read, divided by the price p2 place_order read, rounded
\* down to the lot (amounts are in lots, prices in whole ticks)
close_amount(amount, p1, p2) == (amount * (p1 \div Tick)) \div (p2 \div Tick)

close_return(v) ==
    /\ close_result' = v
    /\ Return

\* a close_position that reports the cancelling of the symbol's orders as a close
close_position_cancel_is_success ==
    /\ pc = "close_position"
    /\ position_closed' = FALSE
    /\ \E positions \in get_positions_results(3) :
         LET pos == find_position(positions, close_symbol, 1)
         IN IF pos.amount # 0
              THEN \E p1 \in get_current_price_results, p2 \in get_current_price_results,
                      tick \in (IF use_maker_orders THEN get_tick_size_results ELSE {"none"}),
                      out \in create_order_outcomes :
                     LET close_side == IF pos.amount > 0 THEN "ask" ELSE "bid"
                         amount == close_amount(Abs(pos.amount), p1, p2)
                         result == place_order_result(Ex, amount, out, 0)
                     IN IF p1 = 0
                          THEN /\ close_return(FALSE)
                               /\ UNCHANGED <<exPos, exOrders, exHistory, run_calls>>
                        ELSE IF p2 = 0
                          THEN /\ close_return(FALSE)
                               /\ run_calls' = run_calls \cup {"place_order"}
                               /\ UNCHANGED <<exPos, exOrders, exHistory>>
                        ELSE /\ SetBook(IF use_maker_orders
                                        THEN place_limit_order(Ex, close_symbol, close_side,
                                                               amount, p2, TRUE, tick, out)
                                        ELSE place_market_order(Ex, close_symbol, close_side,
                                                                amount, p2, TRUE, out))
                             /\ run_calls' = run_calls \cup {"place_order"}
                             /\ IF result.order_id # 0
                                  THEN /\ pc' = "close_position_sleep"
                                       /\ UNCHANGED <<stack, close_result>>
                                  ELSE close_return(FALSE)
              ELSE \E open_orders \in get_open_orders_results(Ex, close_symbol) :
                     \E done \in SUBSET open_orders :
                       /\ SetBook(cancel_each(Ex, done))
                       /\ close_return(TRUE)
                       /\ UNCHANGED run_calls
    /\ UNCHANGED <<close_symbol, to_close, close_all_result, cpFrame>>

\* close_position, lines 882-921 and 944-959: find the position and place the
\* reduce-only order, or cancel the symbol's orders when there is none
close_position ==
    /\ pc = "close_position"
    /\ position_closed' = FALSE
    /\ \E positions \in get_positions_results(3) :
         LET pos == find_position(positions, close_symbol, 1)
         IN IF pos.amount # 0
              THEN \E p1 \in get_current_price_results, p2 \in get_current_price_results,
                      tick \in (IF use_maker_orders THEN get_tick_size_results ELSE {"none"}),
                      out \in create_order_outcomes :
                     LET close_side == IF pos.amount > 0 THEN "ask" ELSE "bid"
                         amount == close_amount(Abs(pos.amount), p1, p2)
                         result == place_order_result(Ex, amount, out, 0)
                     IN IF p1 = 0
                          THEN /\ close_return(FALSE)
                               /\ UNCHANGED <<exPos, exOrders, exHistory, run_calls>>
                        ELSE IF p2 = 0
                          THEN /\ close_return(FALSE)
                               /\ run_calls' = run_calls \cup {"place_order"}
                               /\ UNCHANGED <<exPos, exOrders, exHistory>>
                        ELSE /\ SetBook(IF use_maker_orders
                                        THEN place_limit_order(Ex, close_symbol, close_side,
                                                               amount, p2, TRUE, tick, out)
                                        ELSE place_market_order(Ex, close_symbol, close_side,
                                                                amount, p2, TRUE, out))
                             /\ run_calls' = run_calls \cup {"place_order"}
                             /\ IF result.order_id # 0
                                  THEN /\ pc' = "close_position_sleep"
                                       /\ UNCHANGED <<stack, close_result>>
                                  ELSE close_return(FALSE)
              ELSE \E open_orders \in get_open_orders_results(Ex, close_symbol) :
                     \E done \in SUBSET open_orders :
                       /\ SetBook(cancel_each(Ex, done))
                       /\ close_return(FALSE)
                       /\ UNCHANGED run_calls
    /\ UNCHANGED <<close_symbol, to_close, close_all_result, cpFrame>>

\* close_position, lines 922-943: after the 2s sleep, re-poll the positions,
\* cancel the symbol's orders when the position is gone, return True
close_position_check ==
    /\ pc = "close_position_sleep"
    /\ \E positions_after \in get_positions_results(3) :
         LET closed == find_position(positions_after, close_symbol, 1).amount = 0
         IN /\ position_closed' = closed
            /\ IF closed
                 THEN \E open_orders \in get_open_orders_results(Ex, close_symbol) :
                        \E done \in SUBSET open_orders : SetBook(cancel_each(Ex, done))
                 ELSE UNCHANGED <<exPos, exOrders, exHistory>>
            /\ close_return(TRUE)
    /\ UNCHANGED <<close_symbol, to_close, close_all_result, run_calls, cpFrame>>

symbols_of(positions) == [i \in 1..Len(positions) |-> positions[i].symbol]

\* close_all_positions, lines 829-840: one positions query
close_all_positions ==
    /\ pc = "close_all_positions"
    /\ \E positions \in get_positions_results(3) :
         /\ to_close' = symbols_of(positions)
         /\ IF positions = <<>>
              THEN Return /\ close_all_result' = TRUE
              ELSE pc' = "close_all_next" /\ UNCHANGED <<stack, close_all_result>>
    /\ UNCHANGED <<exPos, exOrders, exHistory, close_symbol, close_result, position_closed,
                   run_calls, cpFrame>>

\* a close_all_positions whose result is that of its last close_position
close_all_next_counting ==
    /\ pc = "close_all_next"
    /\ IF to_close = <<>>
         THEN Return /\ close_all_result' = close_result /\ UNCHANGED <<close_symbol, to_close>>
         ELSE /\ close_symbol' = Head(to_close)
              /\ to_close' = Tail(to_close)
              /\ pc' = "close_position"
              /\ stack' = <<"close_all_next">> \o stack
              /\ UNCHANGED close_all_result
    /\ UNCHANGED <<exPos, exOrders, exHistory, close_result, position_closed, run_calls,
                   cpFrame>>

\* close_all_positions, lines 842-855: close_position for each position in turn
close_all_next ==
    /\ pc = "close_all_next"
    /\ IF to_close = <<>>
         THEN Return /\ close_all_result' = TRUE /\ UNCHANGED <<close_symbol, to_close>>
         ELSE /\ close_symbol' = Head(to_close)
              /\ to_close' = Tail(to_close)
              /\ pc' = "close_position"
              /\ stack' = <<"close_all_next">> \o stack
              /\ UNCHANGED close_all_result
    /\ UNCHANGED <<exPos, exOrders, exHistory, close_result, position_closed, run_calls,
                   cpFrame>>

(***************************************************************************)
(* Trade Orchestrator: trading_cycle                                       *)
(***************************************************************************)
\* config.target_volume, in cents
target_volume == 32000

\* config.hold_time_min = config.hold_time_max, in minutes
hold_time_minutes == 1

\* _hold_position's check_interval, in seconds
hold_check_interval == 10

\* the thresholds sampled at construction, in units of 0.0001
current_take_profit == 10
current_stop_loss == 30

\* get_funding_rate: next_funding_rate of the market, or None
FundingRates == {-2, 0, 2}
get_funding_rate_results ==
    {[ok |-> FALSE, rate |-> 0, raised |-> FALSE], [ok |-> FALSE, rate |-> 0, raised |-> TRUE]}
      \cup {[ok |-> TRUE, rate |-> r, raised |-> FALSE] : r \in FundingRates}

\* no market's funding rate could be read
NoFunding == [m \in MarketSet |-> [ok |-> FALSE, rate |-> 0, raised |-> FALSE]]

\* select_best_market, lines 1125-1141: the first market with the largest |funding|
RECURSIVE best_market_from(_, _, _, _)
best_market_from(funding, i, best_market, best_score) ==
    IF i > Len(Markets) THEN best_market
    ELSE LET f == funding[Markets[i]]
         IN IF f.ok /\ Abs(f.rate) > best_score
              THEN best_market_from(funding, i + 1, Markets[i], Abs(f.rate))
              ELSE best_market_from(funding, i + 1, best_market, best_score)

\* a selection that compares the signed rates
RECURSIVE best_market_from_signed(_, _, _, _)
best_market_from_signed(funding, i, best_market, best_score) ==
    IF i > Len(Markets) THEN best_market
    ELSE LET f == funding[Markets[i]]
         IN IF f.ok /\ f.rate > best_score
              THEN best_market_from_signed(funding, i + 1, Markets[i], f.rate)
              ELSE best_market_from_signed(funding, i + 1, best_market, best_score)

select_best_market_signed(funding) ==
    LET best_market == best_market_from_signed(funding, 1, "", -3)
    IN IF best_market = "" THEN Markets[1] ELSE best_market

\* lines 1128-1142: the loop over the configured markets and the default
select_best_market(funding) ==
    LET best_market == best_market_from(funding, 1, "", -1)
    IN IF best_market = "" THEN Markets[1] ELSE best_market

\* a determine_side that goes long only below zero
determine_side_zero_is_short(f) ==
    IF f.raised THEN "raise" ELSE IF ~f.ok THEN "" ELSE IF f.rate >= 0 THEN "ask" ELSE "bid"

\* determine_side, lines 1144-1166: "" stands for None, "raise" for the
\* exception of get_funding_rate, which determine_side does not catch
determine_side(f) ==
    IF f.raised THEN "raise" ELSE IF ~f.ok THEN "" ELSE IF f.rate > 0 THEN "ask" ELSE "bid"

\* _calculate_pnl, lines 1668-1681
_calculate_pnl(entry, exit, size, sd) ==
    (IF entry > 0 THEN (Sign(sd) * (exit - entry) * size) \div entry ELSE 0)
    - (size * fee_rate(use_maker_orders) * 2) \div 10000

\* what trading_cycle itself never touches
cyFrame == <<exLev, current_leverage, slLocals, gwVars, fnVars>>
\* the same without the market selected, the funding rate read for it and the
\* side determined in the cycle
cyFrameNoSide == <<exLev, current_leverage, slLocals, gwVars, sz_percent, sz_base, rl_amount,
                   rl_lot_size, rl_result>>

\* the locals of a finished close_position / close_all_positions are gone
close_locals_gone ==
    /\ close_symbol' = ""
    /\ close_result' = FALSE
    /\ close_all_result' = FALSE
    /\ position_closed' = FALSE
    /\ to_close' = <<>>

\* the locals of a finished trading_cycle are gone
cycle_locals_gone ==
    /\ market' = ""
    /\ side' = ""
    /\ size_usd' = 0
    /\ current_price' = 0
    /\ order_result' = NoOrderResult
    /\ entry_price' = 0
    /\ hold_time' = 0
    /\ hold_elapsed' = 0
    /\ hold_exit' = ""
    /\ hold_price' = 0
    /\ tp_sl_set' = ""

cycle_return(v) ==
    /\ cycle_result' = v
    /\ cycle_locals_gone
    /\ close_locals_gone
    /\ Return

\* an exception leaves trading_cycle: control passes to the handler of run
\* (line 1794), or out of a cycle that was called on its own
cycle_raise ==
    /\ cycle_locals_gone
    /\ close_locals_gone
    /\ pc' = IF Head(stack) = "run_after_cycle" THEN "run_except" ELSE "raised"
    /\ stack' = Tail(stack)
    /\ UNCHANGED cycle_result

\* the exchange takes at most MaxEntries entry orders of trading_cycle
cycle_entry_outcomes(ex, sym, amount) ==
    IF entries < MaxEntries THEN entry_order_outcomes(ex, sym, amount)
    ELSE entry_order_outcomes(ex, sym, amount) \ {"ok"}

\* the locals of _wait_for_order_fill as a call finds them
wait_reset ==
    /\ order_id' = 0
    /\ elapsed' = 0
    /\ total_elapsed' = 0
    /\ repositioned' = FALSE
    /\ wf_result' = 0
    /\ wf_exit' = ""
    /\ seen_position' = NoPosition("")
    /\ poll_failure' = ""
    /\ cancel_requests' = <<>>
    /\ repositions' = 0

\* trading_cycle, line 1175: cleanup_before_trade begins with close_all_positions
\* a trading_cycle that goes to its target check without the cleanup
trading_cycle_without_cleanup ==
    /\ pc = "trading_cycle"
    /\ cycle_calls' = {}
    /\ funding_seen' = NoFunding
    /\ selected_market' = ""
    /\ determined_side' = "unset"
    /\ pc' = "cleanup_done"
    /\ UNCHANGED <<stack, exPos, exOrders, exHistory, wfArgs, wfLocals, runVars, entry_price,
                   hold_time, hold_elapsed, hold_exit, hold_price, tp_sl_set, cpLocals, exTpsl,
                   run_calls, cyFrameNoSide>>

trading_cycle ==
    /\ pc = "trading_cycle"
    /\ cycle_calls' = {"cleanup_before_trade"}
    /\ funding_seen' = NoFunding
    /\ selected_market' = ""
    /\ determined_side' = "unset"
    /\ pc' = "close_all_positions"
    /\ stack' = <<"cleanup_sleep">> \o stack
    /\ UNCHANGED <<exPos, exOrders, exHistory, wfArgs, wfLocals, runVars, entry_price, hold_time,
                   hold_elapsed, hold_exit, hold_price, tp_sl_set, cpLocals, exTpsl, run_calls, cyFrameNoSide>>

\* cleanup_before_trade, lines 873-877: after the sleep, cancel_all_orders
cleanup_cancel_all ==
    /\ pc = "cleanup_sleep"
    /\ \E out \in cancel_all_orders_outcomes :
         /\ SetBook(cancel_all_orders(Ex, out))
         /\ exTpsl' = IF out = "ok" THEN {} ELSE exTpsl
    /\ pc' = "cleanup_done"
    /\ close_locals_gone
    /\ UNCHANGED <<stack, wfArgs, wfLocals, runVars, cyLocals, run_calls, cyFrame>>

\* a cycle that asks the account for its balance every time
cycle_balance_refreshing(cached) ==
    {[balance |-> b, queried |-> TRUE] : b \in get_balance_results}

\* trading_cycle, lines 1196-1201: the balance of the cycle, and whether
\* get_balance was called for it
cycle_balance(cached) ==
    IF cached # 0 THEN {[balance |-> cached, queried |-> FALSE]}
    ELSE {[balance |-> b, queried |-> TRUE] : b \in get_balance_results}

\* trading_cycle, lines 1177-1277: target check, market, side, balance, price,
\* sizing, limit price and the entry order
trading_cycle_entry ==
    /\ pc = "cleanup_done"
    /\ IF total_volume >= target_volume
         THEN /\ cycle_return(TRUE)
              /\ UNCHANGED <<exPos, exOrders, exHistory, wfLocals, cached_balance, cycle_calls,
                             run_calls, entries, funding_seen, selected_market,
                             determined_side>>
         ELSE \E m \in {select_best_market(funding) :
                            funding \in [MarketSet -> get_funding_rate_results]},
                 f \in get_funding_rate_results,
                 b \in cycle_balance(cached_balance),
                 cp \in get_current_price_results, percent \in position_percents,
                 mp \in (IF use_maker_orders THEN {0} ELSE get_current_price_results),
                 tick \in (IF use_maker_orders THEN get_tick_size_results ELSE {"none"}),
                 resp \in (IF use_maker_orders THEN {0} ELSE {0, 1}) :
                LET sd == determine_side(f)
                    balance == b.balance
                    asked == IF b.queried THEN {"get_balance"} ELSE {}
                    size == position_size_usd(balance, percent, use_maker_orders,
                                              current_leverage)
                    lp == IF use_maker_orders THEN slipped_price(cp, sd, current_slippage)
                          ELSE 0
                IN /\ selected_market' = m
                   /\ funding_seen' = [NoFunding EXCEPT ![m] = f]
                   /\ determined_side' = sd
                   /\ IF sd = "raise"
                        THEN /\ cycle_raise
                             /\ UNCHANGED <<exPos, exOrders, exHistory, wfLocals, cached_balance,
                                            cycle_calls, run_calls, entries>>
                      ELSE IF sd = ""
                        THEN /\ cycle_return(FALSE)
                             /\ UNCHANGED <<exPos, exOrders, exHistory, wfLocals, cached_balance,
                                            cycle_calls, run_calls, entries>>
                      ELSE IF balance <= 0 \/ cp = 0
                        THEN /\ cycle_return(FALSE)
                             /\ cached_balance' = balance
                             /\ cycle_calls' = cycle_calls \cup asked
                             /\ UNCHANGED <<exPos, exOrders, exHistory, wfLocals,
                                            run_calls, entries>>
                      ELSE IF ~use_maker_orders /\ mp = 0
                        THEN /\ cycle_return(FALSE)
                             /\ cached_balance' = balance
                             /\ cycle_calls' = cycle_calls \cup asked \cup {"place_order"}
                             /\ run_calls' = run_calls \cup {"place_order"}
                             /\ UNCHANGED <<exPos, exOrders, exHistory, wfLocals, entries>>
                      ELSE \E out \in cycle_entry_outcomes(Ex, m, EntryAmount) :
                             LET entry_result ==
                                     place_order_result(Ex, EntryAmount, out,
                                         IF use_maker_orders THEN 0 ELSE resp * mp)
                             IN /\ SetBook(IF use_maker_orders
                                             THEN place_limit_order(Ex, m, sd, EntryAmount, lp,
                                                                    FALSE, tick, out)
                                             ELSE place_market_order(Ex, m, sd, EntryAmount,
                                                                     mp, FALSE, out))
                                /\ cached_balance' = balance
                                /\ run_calls' = run_calls \cup {"place_order"}
                                /\ IF entry_result.order_id = 0
                                     THEN /\ cycle_return(FALSE)
                                          /\ cycle_calls' = cycle_calls \cup asked \cup {"place_order"}
                                          /\ UNCHANGED <<wfLocals, entries>>
                                     ELSE /\ market' = m
                                          /\ side' = sd
                                          /\ size_usd' = size
                                          /\ current_price' = cp
                                          /\ order_result' = entry_result
                                          /\ limit_price' = lp
                                          /\ wait_reset
                                          /\ entries' = entries + 1
                                          /\ cycle_calls' = cycle_calls \cup asked \cup
                                               {"place_order", "_wait_for_order_fill"}
                                          /\ pc' = "_wait_for_order_fill"
                                          /\ stack' = <<"cycle_after_wait">> \o stack
                                          /\ UNCHANGED <<cycle_result, entry_price, hold_time,
                                                         hold_elapsed, hold_exit, hold_price, tp_sl_set, cpLocals>>
    /\ UNCHANGED <<use_maker_orders, total_volume, total_pnl, trades_count, balance_attempt,
                   market_index, exTpsl, cyFrameNoSide>>

\* trading_cycle without the test of line 1288: a wait without a fill goes on
cycle_after_wait_unchecked ==
    /\ pc = "cycle_after_wait"
    /\ entry_price' = wf_result
    /\ pc' = "cycle_tpsl_sleep"
    /\ current_price' = 0
    /\ order_result' = NoOrderResult
    /\ limit_price' = 0
    /\ wait_reset
    /\ UNCHANGED <<stack, cycle_result, market, side, size_usd, hold_time, hold_elapsed, hold_exit, hold_price, tp_sl_set,
                   cpLocals>>
    /\ exHistory' = {}
    /\ UNCHANGED <<exPos, exOrders, exTpsl, use_maker_orders, total_volume, total_pnl,
                   trades_count, cached_balance, balance_attempt, market_index, entries, cycle_calls,
                   run_calls, cyFrame>>

\* trading_cycle, lines 1288-1295: no entry price, no trade
cycle_after_wait ==
    /\ pc = "cycle_after_wait"
    /\ IF wf_result = 0
         THEN cycle_return(FALSE)
         ELSE /\ entry_price' = wf_result
              /\ pc' = "cycle_tpsl_sleep"
              /\ current_price' = 0
              /\ order_result' = NoOrderResult
              /\ UNCHANGED <<stack, cycle_result, market, side, size_usd, hold_time,
                             hold_elapsed, hold_exit, hold_price, tp_sl_set, cpLocals>>
    /\ limit_price' = 0
    /\ wait_reset
    /\ exHistory' = {}
    /\ UNCHANGED <<exPos, exOrders, exTpsl, use_maker_orders, total_volume, total_pnl,
                   trades_count, cached_balance, balance_attempt, market_index, entries, cycle_calls,
                   run_calls, cyFrame>>

\* set_position_tpsl's request to the exchange: accepted or not
set_tpsl_outcomes == {"ok", "fail"}

\* a cycle that gives the trade up when the TP/SL could not be set
set_position_tpsl_aborting ==
    /\ pc = "cycle_tpsl_sleep"
    /\ \E positions \in get_positions_results(3), out \in set_tpsl_outcomes :
         LET position_exists == find_position(positions, market, 1).amount # 0
         IN /\ exTpsl' = IF position_exists /\ out = "ok" THEN exTpsl \cup {market} ELSE exTpsl
            /\ cycle_calls' = cycle_calls \cup {"set_position_tpsl"}
            /\ IF position_exists /\ out = "ok"
                 THEN /\ tp_sl_set' = "True"
                      /\ hold_time' = hold_time_minutes * 60
                      /\ hold_elapsed' = 0
                      /\ hold_exit' = ""
                      /\ hold_price' = 0
                      /\ pc' = "hold_poll"
                      /\ UNCHANGED <<stack, wfArgs, cycle_result, entry_price, cpLocals>>
                 ELSE cycle_return(FALSE)
    /\ UNCHANGED <<exPos, exOrders, exHistory, wfLocals, use_maker_orders, total_volume,
                   total_pnl, trades_count, cached_balance, balance_attempt, market_index, entries,
                   run_calls, cyFrame>>

\* trading_cycle, lines 1296-1314: set_position_tpsl (lines 961-1124), whose
\* False only logs a warning, then the hold begins
set_position_tpsl ==
    /\ pc = "cycle_tpsl_sleep"
    /\ \E positions \in get_positions_results(3), out \in set_tpsl_outcomes :
         LET position_exists == find_position(positions, market, 1).amount # 0
         IN /\ exTpsl' = IF position_exists /\ out = "ok" THEN exTpsl \cup {market} ELSE exTpsl
            /\ tp_sl_set' = IF position_exists /\ out = "ok" THEN "True" ELSE "False"
    /\ hold_time' = hold_time_minutes * 60
    /\ hold_elapsed' = 0
    /\ hold_exit' = IF hold_time_minutes * 60 > 0 THEN "" ELSE "time"
    /\ hold_price' = 0
    /\ cycle_calls' = cycle_calls \cup {"set_position_tpsl", "_hold_position"}
    /\ pc' = IF hold_time_minutes * 60 > 0 THEN "hold_poll" ELSE "cycle_close"
    /\ UNCHANGED <<stack, exPos, exOrders, exHistory, wfArgs, wfLocals, runVars, entry_price,
                   cpLocals, run_calls, cyFrame>>

\* the signed price change has reached take profit or stop loss (lines 1631-1653)
threshold_hit(cp, entry, sd) ==
    \/ Sign(sd) * (cp - entry) * 10000 >= current_take_profit * entry
    \/ Sign(sd) * (cp - entry) * 10000 <= -(current_stop_loss * entry)

\* _hold_position, lines 1618-1653: one poll; the hold ends when the
\* positions list shows no position of the market, or at a threshold
\* a poll that reads the position and the price and compares nothing
hold_poll_without_thresholds ==
    /\ pc = "hold_poll"
    /\ \E positions \in get_positions_results(3), cp \in get_current_price_results :
         LET position_exists == find_position(positions, market, 1).amount # 0
         IN /\ hold_price' = IF position_exists THEN cp ELSE 0
            /\ hold_exit' = IF ~position_exists THEN "no_position" ELSE ""
    /\ pc' = IF hold_exit' = "" THEN "hold_sleep" ELSE "cycle_close"
    /\ UNCHANGED <<stack, exPos, exOrders, exHistory, wfArgs, wfLocals, runVars, entry_price,
                   hold_time, hold_elapsed, tp_sl_set, cycle_calls, cpLocals, exTpsl, run_calls,
                   cyFrame>>

hold_poll ==
    /\ pc = "hold_poll"
    /\ \E positions \in get_positions_results(3), cp \in get_current_price_results :
         LET position_exists == find_position(positions, market, 1).amount # 0
         IN /\ hold_price' = IF position_exists THEN cp ELSE 0
            /\ hold_exit' = IF ~position_exists THEN "no_position"
                            ELSE IF cp # 0 /\ threshold_hit(cp, entry_price, side)
                              THEN "threshold"
                            ELSE ""
    /\ pc' = IF hold_exit' = "" THEN "hold_sleep" ELSE "cycle_close"
    /\ UNCHANGED <<stack, exPos, exOrders, exHistory, wfArgs, wfLocals, runVars, entry_price,
                   hold_time, hold_elapsed, tp_sl_set, cycle_calls, cpLocals, exTpsl, run_calls,
                   cyFrame>>

\* a sleep after which the loop test lets one more poll through
hold_sleep_one_more ==
    /\ pc = "hold_sleep"
    /\ hold_elapsed' = hold_elapsed + hold_check_interval
    /\ pc' = IF hold_elapsed + hold_check_interval <= hold_time THEN "hold_poll"
             ELSE "cycle_close"
    /\ hold_exit' = IF hold_elapsed + hold_check_interval <= hold_time THEN "" ELSE "time"
    /\ hold_price' = 0
    /\ UNCHANGED <<stack, exPos, exOrders, exHistory, wfArgs, wfLocals, runVars, entry_price,
                   hold_time, tp_sl_set, cycle_calls, cpLocals, exTpsl, run_calls, cyFrame>>

\* _hold_position, lines 1662-1663 and the loop test of line 1618
hold_sleep ==
    /\ pc = "hold_sleep"
    /\ hold_elapsed' = hold_elapsed + hold_check_interval
    /\ pc' = IF hold_elapsed + hold_check_interval < hold_time THEN "hold_poll"
             ELSE "cycle_close"
    /\ hold_exit' = IF hold_elapsed + hold_check_interval < hold_time THEN "" ELSE "time"
    /\ hold_price' = 0
    /\ UNCHANGED <<stack, exPos, exOrders, exHistory, wfArgs, wfLocals, runVars, entry_price,
                   hold_time, tp_sl_set, cycle_calls, cpLocals, exTpsl, run_calls, cyFrame>>

\* trading_cycle, line 1317: close_position(market)
cycle_close ==
    /\ pc = "cycle_close"
    /\ close_symbol' = market
    /\ cycle_calls' = cycle_calls \cup {"close_position"}
    /\ hold_time' = 0
    /\ hold_elapsed' = 0
    /\ hold_exit' = ""
    /\ hold_price' = 0
    /\ pc' = "close_position"
    /\ stack' = <<"cycle_after_close">> \o stack
    /\ UNCHANGED <<exPos, exOrders, exHistory, wfArgs, wfLocals, runVars, entry_price,
                   tp_sl_set, close_result, close_all_result, position_closed, to_close, exTpsl,
                   run_calls, cyFrame>>

\* trading_cycle, lines 1318-1320 and 1336-1339
\* the recording of the trade reached whatever close_position returned
cycle_after_close_unchecked ==
    /\ pc = "cycle_after_close"
    /\ pc' = "cycle_exit_sleep"
    /\ UNCHANGED <<stack, cycle_result, wfArgs, entry_price, hold_time, hold_elapsed, hold_exit,
                   hold_price, tp_sl_set, cpLocals>>
    /\ UNCHANGED <<exPos, exOrders, exHistory, wfLocals, use_maker_orders, total_volume,
                   total_pnl, trades_count, cached_balance, balance_attempt, market_index, entries,
                   cycle_calls, exTpsl, run_calls, cyFrame>>

cycle_after_close ==
    /\ pc = "cycle_after_close"
    /\ IF close_result
         THEN /\ pc' = "cycle_exit_sleep"
              /\ UNCHANGED <<stack, cycle_result, wfArgs, entry_price, hold_time, hold_elapsed, hold_exit, hold_price, tp_sl_set,
                             cpLocals>>
         ELSE cycle_return(FALSE)
    /\ UNCHANGED <<exPos, exOrders, exHistory, wfLocals, use_maker_orders, total_volume,
                   total_pnl, trades_count, cached_balance, balance_attempt, market_index, entries,
                   cycle_calls, exTpsl, run_calls, cyFrame>>

\* a trading_cycle that returns True for every recorded trade
cycle_record_always_true ==
    /\ pc = "cycle_exit_sleep"
    /\ \E exit_price \in get_current_price_results :
         IF exit_price # 0
           THEN /\ total_pnl' = total_pnl + _calculate_pnl(entry_price, exit_price, size_usd,
                                                           side)
                /\ total_volume' = total_volume + size_usd * 2
                /\ trades_count' = trades_count + 1
                /\ cycle_return(TRUE)
           ELSE /\ cycle_return(FALSE)
                /\ UNCHANGED <<total_pnl, total_volume, trades_count>>
    /\ UNCHANGED <<exPos, exOrders, exHistory, wfLocals, use_maker_orders, cached_balance,
                   balance_attempt, market_index, entries, cycle_calls, exTpsl, run_calls, cyFrame>>

\* trading_cycle, lines 1321-1339: exit price and the statistics
cycle_record ==
    /\ pc = "cycle_exit_sleep"
    /\ \E exit_price \in get_current_price_results :
         IF exit_price # 0
           THEN /\ total_pnl' = total_pnl + _calculate_pnl(entry_price, exit_price, size_usd,
                                                           side)
                /\ total_volume' = total_volume + size_usd * 2
                /\ trades_count' = trades_count + 1
                /\ cycle_return(total_volume + size_usd * 2 >= target_volume)
           ELSE /\ cycle_return(FALSE)
                /\ UNCHANGED <<total_pnl, total_volume, trades_count>>
    /\ UNCHANGED <<exPos, exOrders, exHistory, wfLocals, use_maker_orders, cached_balance,
                   balance_attempt, market_index, entries, cycle_calls, exTpsl, run_calls, cyFrame>>

(***************************************************************************)
(* Trade Orchestrator: run                                                 *)
(***************************************************************************)
\* run's max_attempts of the balance loop
max_attempts == 5

\* config.leverage
config_leverage == 2

\* the locals of set_leverage as a call finds them
set_leverage_call(m, v) ==
    /\ symbol' = m
    /\ requested' = v
    /\ leverage' = v
    /\ current_position_leverage' = 0
    /\ max_leverage' = 0
    /\ test_leverage' = 0
    /\ sl_result' = ""
    /\ primary_request' = 0
    /\ primary_accepted' = FALSE
    /\ lev_requests' = {}
    /\ floor_at_call' = position_floor(m)

\* the locals of a finished set_leverage are gone
leverage_locals_gone ==
    /\ symbol' = ""
    /\ requested' = 0
    /\ leverage' = 0
    /\ current_position_leverage' = 0
    /\ max_leverage' = 0
    /\ test_leverage' = 0
    /\ sl_result' = ""
    /\ primary_request' = 0
    /\ primary_accepted' = FALSE
    /\ lev_requests' = {}
    /\ floor_at_call' = 0

\* what the top of run never touches
runFrame == <<exPos, exOrders, exHistory, wfArgs, wfLocals, cyLocals, cpLocals, exTpsl,
              run_calls, gwVars, fnVars>>

\* run, lines 1727-1739: current_leverage is cut to the smallest max_leverage
run ==
    /\ pc = "run"
    /\ \E markets \in [MarketSet -> get_markets_results] :
         LET maxes == {get_max_leverage(markets[m], m) : m \in MarketSet} \ {0}
             min_max_leverage == IF maxes = {} THEN 0
                                 ELSE CHOOSE x \in maxes : \A y \in maxes : x <= y
         IN current_leverage' = IF min_max_leverage # 0 /\ current_leverage > min_max_leverage
                                  THEN min_max_leverage ELSE current_leverage
    /\ market_index' = 1
    /\ pc' = "run_set_leverage"
    /\ UNCHANGED <<stack, exLev, slLocals, use_maker_orders, total_volume, total_pnl,
                   trades_count, cached_balance, balance_attempt, entries, cycle_result, runFrame>>

\* run, lines 1741-1744: set_leverage for each configured market
run_set_leverage ==
    /\ pc = "run_set_leverage"
    /\ IF market_index <= Len(Markets)
         THEN /\ set_leverage_call(Markets[market_index], current_leverage)
              /\ market_index' = market_index + 1
              /\ pc' = "set_leverage"
              /\ stack' = <<"run_set_leverage">> \o stack
         ELSE /\ pc' = "run_balance"
              /\ leverage_locals_gone
              /\ UNCHANGED <<stack, market_index>>
    /\ UNCHANGED <<exLev, current_leverage, use_maker_orders, total_volume, total_pnl,
                   trades_count, cached_balance, balance_attempt, entries, cycle_result, runFrame>>

\* a balance loop that goes on to trade when every attempt failed
run_balance_without_return ==
    /\ pc = "run_balance"
    /\ \E balance \in get_balance_results :
         IF balance > 0
           THEN /\ cached_balance' = balance
                /\ balance_attempt' = 0
                /\ pc' = "run_loop"
           ELSE /\ balance_attempt' = balance_attempt + 1
                /\ pc' = IF balance_attempt + 1 < max_attempts THEN "run_balance"
                         ELSE "run_loop"
                /\ UNCHANGED cached_balance
    /\ UNCHANGED <<stack, exLev, current_leverage, slLocals, use_maker_orders, total_volume,
                   total_pnl, trades_count, market_index, entries, cycle_result, runFrame>>

\* run, lines 1749-1771: one attempt of the balance loop; no balance after
\* max_attempts ends run
run_balance ==
    /\ pc = "run_balance"
    /\ \E balance \in get_balance_results :
         IF balance > 0
           THEN /\ cached_balance' = balance
                /\ balance_attempt' = 0
                /\ pc' = "run_loop"
           ELSE /\ balance_attempt' = balance_attempt + 1
                /\ pc' = IF balance_attempt + 1 < max_attempts THEN "run_balance"
                         ELSE "run_returned"
                /\ UNCHANGED cached_balance
    /\ UNCHANGED <<stack, exLev, current_leverage, slLocals, use_maker_orders, total_volume,
                   total_pnl, trades_count, market_index, entries, cycle_result, runFrame>>

\* run, lines 1774-1778: the main loop calls trading_cycle
run_loop ==
    /\ pc = "run_loop"
    /\ IF total_volume < target_volume
         THEN /\ pc' = "trading_cycle"
              /\ stack' = <<"run_after_cycle">> \o stack
              /\ run_calls' = run_calls \cup {"trading_cycle"}
         ELSE /\ pc' = "run_final"
              /\ UNCHANGED <<stack, run_calls>>
    /\ UNCHANGED <<exPos, exOrders, exHistory, exLev, current_leverage, slLocals, wfArgs, wfLocals,
                   runVars, cyLocals, cpLocals, exTpsl>>
    /\ UNCHANGED <<gwVars, fnVars>>

\* run, lines 1794-1796: an exception of the cycle is caught; after the 10 s
\* sleep the loop tests the volume again
run_except ==
    /\ pc = "run_except"
    /\ pc' = "run_loop"
    /\ UNCHANGED <<stack, exPos, exOrders, exHistory, exLev, current_leverage, slLocals, wfArgs,
                   wfLocals, runVars, cyLocals, cpLocals, exTpsl, run_calls>>
    /\ UNCHANGED <<gwVars, fnVars>>

\* a main loop that a cycle's False result ends
run_after_cycle_stops ==
    /\ pc = "run_after_cycle"
    /\ pc' = "run_final"
    /\ cycle_calls' = {}
    /\ UNCHANGED <<stack, exPos, exOrders, exHistory, exLev, current_leverage, slLocals, wfArgs,
                   wfLocals, runVars, entry_price, hold_time, hold_elapsed, hold_exit, hold_price, tp_sl_set, cpLocals, exTpsl,
                   run_calls>>
    /\ UNCHANGED <<gwVars, fnVars>>

\* run, lines 1780-1792: leave the loop, or sleep the delay and loop
run_after_cycle ==
    /\ pc = "run_after_cycle"
    /\ pc' = IF cycle_result \/ total_volume >= target_volume THEN "run_final" ELSE "run_loop"
    /\ cycle_calls' = {}
    /\ UNCHANGED <<stack, exPos, exOrders, exHistory, exLev, current_leverage, slLocals, wfArgs,
                   wfLocals, runVars, entry_price, hold_time, hold_elapsed, hold_exit, hold_price, tp_sl_set, cpLocals, exTpsl,
                   run_calls>>
    /\ UNCHANGED <<gwVars, fnVars>>

\* run, lines 1798-1800: the final pass starts with cancel_all_orders
run_final ==
    /\ pc = "run_final"
    /\ \E out \in cancel_all_orders_outcomes :
         /\ SetBook(cancel_all_orders(Ex, out))
         /\ exTpsl' = IF out = "ok" THEN {} ELSE exTpsl
    /\ pc' = "run_final_sleep"
    /\ UNCHANGED <<stack, exLev, current_leverage, slLocals, wfArgs, wfLocals, runVars, cyLocals,
                   cpLocals, run_calls>>
    /\ UNCHANGED <<gwVars, fnVars>>

\* run, lines 1802-1804: close_all_positions
run_final_close_all ==
    /\ pc = "run_final_sleep"
    /\ pc' = "close_all_positions"
    /\ stack' = <<"run_final_check">> \o stack
    /\ UNCHANGED <<exPos, exOrders, exHistory, exLev, current_leverage, slLocals, wfArgs,
                   wfLocals, runVars, cyLocals, cpLocals, exTpsl, run_calls>>
    /\ UNCHANGED <<gwVars, fnVars>>

\* run, lines 1806-1808: the verification poll
run_final_check ==
    /\ pc = "run_final_check"
    /\ \E positions \in get_positions_results(3) : to_close' = symbols_of(positions)
    /\ pc' = "run_final_next"
    /\ UNCHANGED <<stack, exPos, exOrders, exHistory, exLev, current_leverage, slLocals, wfArgs,
                   wfLocals, runVars, cyLocals, close_symbol, close_result, close_all_result,
                   position_closed, exTpsl, run_calls>>
    /\ UNCHANGED <<gwVars, fnVars>>

\* run, lines 1809-1816: close_position for each position the poll returned,
\* then the last cancel_all_orders
run_final_next ==
    /\ pc = "run_final_next"
    /\ IF to_close = <<>>
         THEN /\ \E out \in cancel_all_orders_outcomes :
                   /\ SetBook(cancel_all_orders(Ex, out))
                   /\ exTpsl' = IF out = "ok" THEN {} ELSE exTpsl
              /\ pc' = "run_completed"
              /\ UNCHANGED <<stack, close_symbol, to_close>>
         ELSE /\ close_symbol' = Head(to_close)
              /\ to_close' = Tail(to_close)
              /\ pc' = "close_position"
              /\ stack' = <<"run_final_next">> \o stack
              /\ UNCHANGED <<exPos, exOrders, exHistory, exTpsl>>
    /\ UNCHANGED <<exLev, current_leverage, slLocals, wfArgs, wfLocals, runVars, cyLocals,
                   close_result, close_all_result, position_closed, run_calls>>
    /\ UNCHANGED <<gwVars, fnVars>>

\* the variables of the reconciler before its first call
wait_idle ==
    /\ limit_price = 0
    /\ order_id = 0
    /\ elapsed = 0
    /\ total_elapsed = 0
    /\ repositioned = FALSE
    /\ wf_result = 0
    /\ wf_exit = ""
    /\ seen_position = NoPosition("")
    /\ poll_failure = ""
    /\ cancel_requests = <<>>
    /\ repositions = 0

\* the variables of the leverage reconciler before its first call
leverage_idle ==
    /\ symbol = ""
    /\ requested = 0
    /\ leverage = 0
    /\ current_position_leverage = 0
    /\ max_leverage = 0
    /\ test_leverage = 0
    /\ sl_result = ""
    /\ primary_request = 0
    /\ primary_accepted = FALSE
    /\ lev_requests = {}
    /\ floor_at_call = 0

\* the variables of run(), trading_cycle and close_position before run() starts
\* the fields and locals of a bot that has not traded, total_volume apart
run_locals_idle ==
    /\ total_pnl = 0
    /\ trades_count = 0
    /\ balance_attempt = 0
    /\ market_index = 1
    /\ entries = 0
    /\ cycle_result = FALSE
    /\ entry_price = 0
    /\ hold_time = 0
    /\ hold_elapsed = 0
    /\ hold_exit = ""
    /\ hold_price = 0
    /\ tp_sl_set = ""
    /\ close_symbol = ""
    /\ close_result = FALSE
    /\ close_all_result = FALSE
    /\ position_closed = FALSE
    /\ to_close = <<>>
    /\ exTpsl = {}
    /\ cycle_calls = {}
    /\ run_calls = {}

run_idle ==
    /\ total_volume = 0
    /\ run_locals_idle

(***************************************************************************)
(* Market Data Gateway: the queries as calls                               *)
(***************************************************************************)
\* what one attempt of get_prices can meet: a non-empty list, an empty one,
\* asyncio.TimeoutError, a CloudFront / 403 block, any other exception
PriceOutcomes == {"ok", "empty", "timeout", "blocked", "error"}

\* get_prices, lines 272-309: the loop over the attempts; slept is the sum of
\* the delays between them
RECURSIVE get_prices_attempt(_, _, _, _)
get_prices_attempt(outs, attempt, retries, slept) ==
    IF attempt >= retries THEN [value |-> "none", attempts |-> attempt, slept |-> slept]
    ELSE LET out == outs[attempt + 1]
             last == ~(attempt < retries - 1)
         IN IF out = "ok" THEN [value |-> "prices", attempts |-> attempt + 1, slept |-> slept]
            ELSE IF out = "empty"
              THEN get_prices_attempt(outs, attempt + 1, retries, slept)
            ELSE IF out = "timeout"
              THEN get_prices_attempt(outs, attempt + 1, retries,
                                     IF last THEN slept ELSE slept + 2 * (attempt + 1))
            ELSE IF out = "blocked"
              THEN get_prices_attempt(outs, attempt + 1, retries,
                                     IF last THEN slept ELSE slept + 5 * (attempt + 1))
            ELSE get_prices_attempt(outs, attempt + 1, retries,
                                    IF last THEN slept ELSE slept + 2 * (attempt + 1))

get_prices(outs, retries) == get_prices_attempt(outs, 0, retries, 0)

\* get_markets, lines 263-270: one request; [] when it raised
get_markets(out) == IF out = "ok" THEN "markets" ELSE "empty"

\* get_open_orders, lines 773-787: one request; [] when it raised
get_open_orders(out, ex, sym) == IF out = "ok" THEN orders_of(ex, sym) ELSE {}

\* the order-history lookup of _wait_for_order_fill, lines 1478-1499: one
\* request; nothing when it raised
get_order_history(out, ex, oid) == IF out = "ok" THEN {h \in ex.history : h.id = oid} ELSE {}

GatewayQueries ==
    {"get_prices", "get_markets", "get_positions", "get_open_orders", "get_order_history"}

\* the queries that take a retries argument
RetryingQueries == {"get_prices", "get_positions"}

gateway_idle ==
    /\ gw_query = ""
    /\ gw_retries = 0
    /\ gw_outs = <<>>
    /\ gw_result = [value |-> "", attempts |-> 0]

function_idle ==
    /\ sz_percent = 0
    /\ sz_base = 0
    /\ rl_amount = 0
    /\ rl_lot_size = 0
    /\ rl_result = 0
    /\ funding_seen = NoFunding
    /\ selected_market = ""
    /\ determined_side = "unset"

gwFrame == <<stack, exVars, current_leverage, slLocals, wfArgs, wfLocals, runVars, cyLocals,
             cpLocals, exTpsl, run_calls, gw_query, gw_retries, gw_outs, fnVars>>

gateway_get_prices ==
    /\ pc = "gateway" /\ gw_query = "get_prices"
    /\ LET r == get_prices(gw_outs, gw_retries)
       IN gw_result' = [value |-> r.value, attempts |-> r.attempts]
    /\ pc' = "gateway_done"
    /\ UNCHANGED gwFrame

gateway_get_positions ==
    /\ pc = "gateway" /\ gw_query = "get_positions"
    /\ LET r == get_positions(gw_outs, gw_retries, live_positions)
       IN gw_result' = [value |-> r.result, attempts |-> r.attempts]
    /\ pc' = "gateway_done"
    /\ UNCHANGED gwFrame

gateway_get_markets ==
    /\ pc = "gateway" /\ gw_query = "get_markets"
    /\ gw_result' = [value |-> get_markets(gw_outs[1]), attempts |-> 1]
    /\ pc' = "gateway_done"
    /\ UNCHANGED gwFrame

gateway_get_open_orders ==
    /\ pc = "gateway" /\ gw_query = "get_open_orders"
    /\ gw_result' = [value |-> get_open_orders(gw_outs[1], Ex, Markets[1]), attempts |-> 1]
    /\ pc' = "gateway_done"
    /\ UNCHANGED gwFrame

gateway_get_order_history ==
    /\ pc = "gateway" /\ gw_query = "get_order_history"
    /\ gw_result' = [value |-> get_order_history(gw_outs[1], Ex, 1), attempts |-> 1]
    /\ pc' = "gateway_done"
    /\ UNCHANGED gwFrame

(***************************************************************************)
(* SpecWait: one call of _wait_for_order_fill for an entry order that      *)
(* trading_cycle has just placed, against every exchange behaviour         *)
(***************************************************************************)
InitWait ==
    /\ pc = "_wait_for_order_fill"
    /\ stack = <<"returned">>
    /\ market \in MarketSet
    /\ side \in Sides
    /\ current_price \in MarkPrices
    /\ use_maker_orders \in BOOLEAN
    \* the exchange may hold the market above the bot's leverage (run ignores
    \* set_leverage's result); one such start per market is enough
    /\ \E l \in 1..2 :
         /\ exLev = [m \in MarketSet |-> IF m = market THEN l ELSE 1]
         /\ l = 2 => use_maker_orders /\ side = "bid" /\ current_price = 10000 * Tick
    /\ current_leverage = 1
    /\ leverage_idle
    /\ size_usd = position_size_usd(Balance, 8, use_maker_orders, 1)
    /\ cached_balance = Balance
    /\ run_idle
    /\ gateway_idle
    /\ function_idle
    /\ \E tick \in get_tick_size_results, out \in create_order_outcomes, resp \in {0, 1} :
         LET ex0 == [pos |-> [m \in MarketSet |-> Flat], orders |-> {}, history |-> {}]
             price == IF use_maker_orders
                        THEN slipped_price(current_price, side, current_slippage)
                        ELSE current_price
             ex1 == IF use_maker_orders
                      THEN place_limit_order(ex0, market, side, EntryAmount, price, FALSE,
                                             tick, out)
                      ELSE place_market_order(ex0, market, side, EntryAmount, price, FALSE, out)
         IN /\ exPos = ex1.pos
            /\ exOrders = ex1.orders
            /\ exHistory = ex1.history
            /\ order_result = place_order_result(ex0, EntryAmount, out,
                                                 IF use_maker_orders THEN 0 ELSE resp * price)
            /\ limit_price = IF use_maker_orders THEN price ELSE 0
    /\ order_id = 0
    /\ elapsed = 0
    /\ total_elapsed = 0
    /\ repositioned = FALSE
    /\ wf_result = 0
    /\ wf_exit = ""
    /\ seen_position = NoPosition("")
    /\ poll_failure = ""
    /\ cancel_requests = <<>>
    /\ repositions = 0

NextWait ==
    \/ wait_start
    \/ wait_poll
    \/ wait_reposition
    \/ wait_sleep
    \/ wait_timeout
    \/ exchange_fills
    \/ exchange_cancels

SpecWait == InitWait /\ [][NextWait]_vars

\* every await of the coroutine comes back: asyncio.sleep ends, and a request
\* to the exchange answers or raises
WaitFairness ==
    /\ WF_vars(wait_start)
    /\ WF_vars(wait_poll)
    /\ WF_vars(wait_reposition)
    /\ WF_vars(wait_sleep)
    /\ WF_vars(wait_timeout)

SpecWaitFair == SpecWait /\ WaitFairness

(***************************************************************************)
(* SpecCycle: one call of trading_cycle by a bot whose setup has finished, *)
(* against every exchange behaviour; the account may hold a position or an *)
(* order left over from an earlier cycle                                   *)
(***************************************************************************)
\* the books a cycle can start with: flat and empty, a long position in the
\* first market, or a resting entry order in the first market
InitialBooks ==
    LET none == [m \in MarketSet |-> Flat]
        long == [none EXCEPT ![Markets[1]] =
                                [amount |-> EntryAmount, entry_price |-> 10000 * Tick]]
        stale == [id |-> 1, symbol |-> Markets[1], side |-> "bid", price |-> 9990 * Tick,
                  reduce_only |-> FALSE, initial |-> EntryAmount, filled |-> 0, cancelled |-> 0]
    IN {[pos |-> none, orders |-> {}, history |-> {}],
        [pos |-> long, orders |-> {}, history |-> {}],
        [pos |-> none, orders |-> {stale}, history |-> {}]}

InitCycle ==
    /\ pc = "trading_cycle"
    /\ stack = <<"returned">>
    /\ \E ex \in InitialBooks :
         /\ exPos = ex.pos
         /\ exOrders = ex.orders
         /\ exHistory = ex.history
    /\ exLev = [m \in MarketSet |-> config_leverage]
    /\ current_leverage = config_leverage
    /\ leverage_idle
    /\ market = ""
    /\ side = ""
    /\ size_usd = 0
    /\ current_price = 0
    /\ order_result = NoOrderResult
    /\ wait_idle
    /\ total_volume \in {0, target_volume}
    /\ run_locals_idle
    /\ gateway_idle
    /\ function_idle
    /\ use_maker_orders \in BOOLEAN
    /\ cached_balance \in {0, Balance}

NextCycle ==
    \/ trading_cycle
    \/ close_all_positions
    \/ close_all_next
    \/ close_position
    \/ close_position_check
    \/ cleanup_cancel_all
    \/ trading_cycle_entry
    \/ wait_start
    \/ wait_poll
    \/ wait_reposition
    \/ wait_sleep
    \/ wait_timeout
    \/ cycle_after_wait
    \/ set_position_tpsl
    \/ hold_poll
    \/ hold_sleep
    \/ cycle_close
    \/ cycle_after_close
    \/ cycle_record
    \/ exchange_fills
    \/ exchange_tpsl

SpecCycle == InitCycle /\ [][NextCycle]_vars

(***************************************************************************)
(* SpecRun: run() from its first line on a flat, empty account with        *)
(* use_maker_orders = False: every order is a market order, so no order    *)
(* rests on the book and the limit-order polling loop is never entered;    *)
(* no market holds a position while the leverage is set, so set_leverage   *)
(* never scans upward from a position's leverage                           *)
(***************************************************************************)
InitRun ==
    /\ pc = "run"
    /\ stack = <<>>
    /\ exPos = [m \in MarketSet |-> Flat]
    /\ exOrders = {}
    /\ exHistory = {}
    /\ exLev = [m \in MarketSet |-> 1]
    /\ current_leverage \in {config_leverage, MaxLev + 1}
    /\ leverage_idle
    /\ market = ""
    /\ side = ""
    /\ size_usd = 0
    /\ current_price = 0
    /\ order_result = NoOrderResult
    /\ wait_idle
    /\ run_idle
    /\ gateway_idle
    /\ function_idle
    /\ use_maker_orders = FALSE
    /\ cached_balance = 0

NextRun ==
    \/ run
    \/ run_set_leverage
    \/ set_leverage_try
    \/ set_leverage_ApiError
    \/ set_leverage_Exception
    \/ set_leverage_scan_down
    \/ run_balance
    \/ run_loop
    \/ run_except
    \/ trading_cycle
    \/ close_all_positions
    \/ close_all_next
    \/ close_position
    \/ close_position_check
    \/ cleanup_cancel_all
    \/ trading_cycle_entry
    \/ wait_start
    \/ cycle_after_wait
    \/ set_position_tpsl
    \/ hold_poll
    \/ hold_sleep
    \/ cycle_close
    \/ cycle_after_close
    \/ cycle_record
    \/ run_after_cycle
    \/ run_final
    \/ run_final_close_all
    \/ run_final_check
    \/ run_final_next
    \/ exchange_tpsl

SpecRun == InitRun /\ [][NextRun]_vars

(***************************************************************************)
(* SpecSizing: one sizing of an entry (trading_cycle, lines 1213-1249) or  *)
(* one round_to_lot call, for every input of the bounded sets. The         *)
(* round_to_lot inputs leave out the decimal ties: which side the format   *)
(* takes there depends on the binary expansion of the float, which the     *)
(* fixed-point numbers do not carry.                                       *)
(***************************************************************************)
\* balances in cents: the small ones and that of the spec's scenario
Balances == 1..MaxBalance \cup {100000}

\* leverages up to the default of Config.leverage
Leverages == 1..(MaxLev + 2)

\* lot sizes 0, 1e-6, 3e-6, 1e-5, 1.5e-5, 1e-4, 0.01, 1.0, 2.5
LotSizes == {0, 10, 30, 100, 150, 1000, 100000, 10000000, 25000000}

Amounts ==
    0..MaxAmount \cup {1000 * a + 7 : a \in 0..MaxAmount}
                 \cup {1000000 * a + 7 : a \in 0..MaxAmount}

trading_cycle_sizing ==
    /\ pc = "sizing"
    /\ sz_base' = position_size_base(cached_balance, sz_percent, use_maker_orders)
    /\ size_usd' = position_size_usd(cached_balance, sz_percent, use_maker_orders,
                                     current_leverage)
    /\ pc' = "sizing_done"
    /\ UNCHANGED <<stack, exVars, current_leverage, slLocals, market, side, current_price,
                   order_result, wfLocals, runVars, cyLocals, cpLocals, exTpsl, run_calls,
                   gwVars, sz_percent, rl_amount, rl_lot_size, rl_result, funding_seen,
                   selected_market, determined_side>>

round_to_lot_call ==
    /\ pc = "round_to_lot"
    /\ rl_result' \in round_to_lot(rl_amount, rl_lot_size)
    /\ pc' = "round_to_lot_done"
    /\ UNCHANGED <<stack, exVars, current_leverage, slLocals, wfArgs, wfLocals, runVars,
                   cyLocals, cpLocals, exTpsl, run_calls, gwVars, sz_percent, sz_base,
                   rl_amount, rl_lot_size, funding_seen, selected_market, determined_side>>

\* select_best_market applied to the funding rates the lookups gave
select_best_market_call ==
    /\ pc = "select_best_market"
    /\ selected_market' = select_best_market(funding_seen)
    /\ pc' = "select_best_market_done"
    /\ UNCHANGED <<stack, exVars, current_leverage, slLocals, wfArgs, wfLocals, runVars,
                   cyLocals, cpLocals, exTpsl, run_calls, gwVars, sz_percent, sz_base,
                   rl_amount, rl_lot_size, rl_result, funding_seen, determined_side>>

\* determine_side applied to the funding rate of its argument
determine_side_call ==
    /\ pc = "determine_side"
    /\ determined_side' = determine_side(funding_seen[selected_market])
    /\ pc' = "determine_side_done"
    /\ UNCHANGED <<stack, exVars, current_leverage, slLocals, wfArgs, wfLocals, runVars,
                   cyLocals, cpLocals, exTpsl, run_calls, gwVars, sz_percent, sz_base,
                   rl_amount, rl_lot_size, rl_result, funding_seen, selected_market>>

InitSizing ==
    /\ pc \in {"sizing", "round_to_lot", "select_best_market", "determine_side"}
    /\ stack = <<>>
    /\ exPos = [m \in MarketSet |-> Flat]
    /\ exOrders = {}
    /\ exHistory = {}
    /\ exLev = [m \in MarketSet |-> 1]
    /\ leverage_idle
    /\ market = ""
    /\ side = ""
    /\ size_usd = 0
    /\ current_price = 0
    /\ order_result = NoOrderResult
    /\ wait_idle
    /\ run_idle
    /\ gateway_idle
    /\ sz_base = 0
    /\ rl_result = 0
    /\ determined_side = "unset"
    /\ IF pc \in {"select_best_market", "determine_side"}
         THEN funding_seen \in [MarketSet -> get_funding_rate_results]
         ELSE funding_seen = NoFunding
    /\ IF pc = "determine_side" THEN selected_market \in MarketSet ELSE selected_market = ""
    /\ IF pc = "sizing"
         THEN /\ cached_balance \in Balances
              /\ sz_percent \in 0..MaxPercent
              /\ use_maker_orders \in BOOLEAN
              /\ current_leverage \in Leverages
              /\ rl_amount = 0
              /\ rl_lot_size = 0
         ELSE /\ cached_balance = 0
              /\ sz_percent = 0
              /\ use_maker_orders = TRUE
              /\ current_leverage = config_leverage
              /\ IF pc = "round_to_lot"
                   THEN /\ rl_amount \in Amounts
                        /\ rl_lot_size \in LotSizes
                        /\ ~decimal_tie(rl_amount, rl_lot_size)
                   ELSE rl_amount = 0 /\ rl_lot_size = 0

NextSizing ==
    \/ trading_cycle_sizing
    \/ round_to_lot_call
    \/ select_best_market_call
    \/ determine_side_call

SpecSizing == InitSizing /\ [][NextSizing]_vars

(***************************************************************************)
(* SpecGateway: one call of one gateway query, for every outcome of each   *)
(* of its attempts and every retries argument up to MaxRetries             *)
(***************************************************************************)
\* an order of an earlier cycle that filled, in the exchange's history
FilledRecord == [id |-> 1, initial |-> EntryAmount, filled |-> EntryAmount, price |-> 9990 * Tick]

InitGateway ==
    /\ pc = "gateway"
    /\ stack = <<>>
    /\ \E ex \in InitialBooks :
         /\ exPos = ex.pos
         /\ exOrders = ex.orders
         /\ exHistory = IF ex.orders = {} /\ ex.pos[Markets[1]].amount # 0
                          THEN {FilledRecord} ELSE {}
    /\ exLev = [m \in MarketSet |-> 1]
    /\ current_leverage = config_leverage
    /\ leverage_idle
    /\ market = ""
    /\ side = ""
    /\ size_usd = 0
    /\ current_price = 0
    /\ order_result = NoOrderResult
    /\ wait_idle
    /\ run_idle
    /\ use_maker_orders = TRUE
    /\ cached_balance = 0
    /\ gw_query \in GatewayQueries
    /\ gw_retries \in (IF gw_query \in RetryingQueries THEN 0..MaxRetries ELSE {1})
    /\ gw_outs \in [1..MaxRetries ->
                      IF gw_query = "get_prices" THEN PriceOutcomes ELSE AttemptOutcomes]
    /\ gw_result = [value |-> "", attempts |-> 0]
    /\ function_idle

NextGateway ==
    \/ gateway_get_prices
    \/ gateway_get_positions
    \/ gateway_get_markets
    \/ gateway_get_open_orders
    \/ gateway_get_order_history

SpecGateway == InitGateway /\ [][NextGateway]_vars

(***************************************************************************)
(* SpecLeverage: one call of set_leverage, for every symbol, requested     *)
(* value and exchange state                                                *)
(***************************************************************************)
InitLeverage ==
    /\ pc = "set_leverage"
    /\ stack = <<"returned">>
    /\ symbol \in MarketSet
    /\ requested \in 0..(MaxLev + 1)
    /\ leverage = requested
    /\ exLev \in [MarketSet -> 1..MaxLev]
    /\ \A m \in MarketSet : exLev[m] <= market_max_leverage(m)
    /\ exPos \in [MarketSet -> {Flat, [amount |-> EntryAmount, entry_price |-> 10000 * Tick]}]
    /\ \A m \in MarketSet : m # symbol => exPos[m] = Flat /\ exLev[m] = 1
    /\ current_leverage = requested
    /\ current_position_leverage = 0
    /\ max_leverage = 0
    /\ test_leverage = 0
    /\ sl_result = ""
    /\ primary_request = 0
    /\ primary_accepted = FALSE
    /\ lev_requests = {}
    /\ floor_at_call = position_floor(symbol)
    /\ exOrders = {}
    /\ exHistory = {}
    /\ market = ""
    /\ side = ""
    /\ size_usd = 0
    /\ current_price = 0
    /\ order_result = NoOrderResult
    /\ wait_idle
    /\ run_idle
    /\ gateway_idle
    /\ function_idle
    /\ use_maker_orders = TRUE
    /\ cached_balance = 0

NextLeverage ==
    \/ set_leverage_try
    \/ set_leverage_ApiError
    \/ set_leverage_Exception
    \/ set_leverage_scan_up
    \/ set_leverage_scan_down

SpecLeverage == InitLeverage /\ [][NextLeverage]_vars

(***************************************************************************)
(* Claims about _wait_for_order_fill (checked under SpecWait)              *)
(***************************************************************************)
\* the exits of the wait that report a fill
FillSignals == {"position", "confirmed", "open_order", "history"}

\* the number of cancel_order calls the wait made for an order
times_cancelled(oid) ==
    Cardinality({i \in DOMAIN cancel_requests : cancel_requests[i] = oid})

\* C3: when a poll of the limit-order loop sees a non-flat position of the
\* target market, the wait returns at that very poll with that position's
\* entry_price, and the poll sends no cancel and no replacement order, so
\* neither the reposition nor the timeout cancel can follow.
C3_PositionSeenReturnsEntryPrice ==
    [][(pc = "wait_poll" /\ seen_position'.amount # 0)
         => /\ pc' = "returned"
            /\ wf_result' = seen_position'.entry_price
            /\ wf_exit' = "position"
            /\ total_elapsed < max_wait
            /\ UNCHANGED <<cancel_requests, repositions, exOrders>>]_vars

\* a wait that returned the entry price of a position seen at a later poll
C3_Witness ==
    /\ pc = "returned"
    /\ wf_exit = "position"
    /\ seen_position.symbol = market
    /\ seen_position.amount # 0
    /\ wf_result = seen_position.entry_price
    /\ total_elapsed > 0

C5_AtMostOneReposition ==
    [][/\ repositions' <= 1
       /\ repositions' # repositions
            => /\ pc = "wait_reposition"
               /\ elapsed >= reposition_timeout
               /\ ~repositioned
               /\ total_elapsed < max_wait - 60
               /\ total_elapsed' = total_elapsed
               /\ repositions' = repositions + 1
               /\ pc' = "wait_sleep" => elapsed' = 0 /\ repositioned'
       /\ (pc = "wait_poll" /\ pc' # "returned" /\ elapsed >= reposition_timeout
             /\ total_elapsed < max_wait - 60)
            => (repositions = 1 \/ pc' = "wait_reposition")
       /\ wf_exit' = "timeout" => repositions' = 1]_vars

\* a wait that repositioned once and kept waiting on the replacement
C5_Witness ==
    /\ repositions = 1
    /\ repositioned
    /\ order_id # order_result.order_id
    /\ elapsed = reposition_timeout
    /\ total_elapsed = 2 * reposition_timeout
    /\ pc = "wait_sleep"

(***************************************************************************)
(* Claims about set_leverage (checked under SpecLeverage)                  *)
(***************************************************************************)
\* the call under SpecLeverage has returned
sl_returned == pc = "returned"

\* the case of C7: a position with leverage K was open at the call and the
\* requested value is below K
below_floor_call == floor_at_call # 0 /\ requested < floor_at_call

\* C7 as stated: with a position open at leverage K and a requested value
\* below K, after the call the leverage applied on the exchange is K and the
\* call has returned True.
C7_AppliedIsFloorAndSuccess ==
    (sl_returned /\ below_floor_call)
        => (exLev[symbol] = floor_at_call /\ sl_result = "True")

\* C7 amended: with a position open at leverage K and a requested value below
\* K, the applied leverage is never below K after the call; when the pre-check
\* saw the position the primary request carries exactly K; and when the
\* exchange accepts the primary request the applied leverage is K and the call
\* returns True.
C7_FloorHeldAndAppliedWhenAccepted ==
    (sl_returned /\ below_floor_call)
        => /\ exLev[symbol] >= floor_at_call
           /\ (current_position_leverage # 0 => primary_request = floor_at_call)
           /\ (primary_accepted => (exLev[symbol] = floor_at_call /\ sl_result = "True"))

\* scenario D: position at 3x, set_leverage(X, 2) accepted at 3 and True
C7_Witness ==
    /\ sl_returned
    /\ floor_at_call = 3
    /\ requested = 2
    /\ primary_request = 3
    /\ primary_accepted
    /\ exLev[symbol] = 3
    /\ sl_result = "True"

\* C8: no update_leverage request carries a value below the leverage of the
\* position open on the symbol when the request is sent.
C8_NoRequestBelowOpenPosition ==
    \A r \in lev_requests : r.floor # 0 => r.value >= r.floor

\* the case of C9: no position was open at the call and the requested value
\* exceeds the market's max_leverage
above_max_call == floor_at_call = 0 /\ requested > market_max_leverage(symbol)

\* C9 as stated: with no open position and requested > max_leverage, the
\* leverage applied after the call equals max_leverage.
C9_AppliedIsMax ==
    (sl_returned /\ above_max_call) => exLev[symbol] = market_max_leverage(symbol)

\* C9 amended: with no open position and requested > max_leverage, the primary
\* request carries max_leverage whenever the market metadata was fetched, the
\* applied leverage equals max_leverage (and the call returns True) whenever
\* the exchange accepts the primary request, and the applied leverage never
\* exceeds max_leverage.
C9_MaxAppliedWhenAccepted ==
    (sl_returned /\ above_max_call)
        => /\ (max_leverage # 0 => primary_request = market_max_leverage(symbol))
           /\ (primary_accepted
                 => (exLev[symbol] = market_max_leverage(symbol) /\ sl_result = "True"))
           /\ exLev[symbol] <= market_max_leverage(symbol)

C9_Witness ==
    /\ sl_returned
    /\ above_max_call
    /\ exLev[symbol] = market_max_leverage(symbol)
    /\ primary_request = market_max_leverage(symbol)
    /\ primary_accepted
    /\ sl_result = "True"

(***************************************************************************)
(* Claims about cleanup_before_trade and trading_cycle (under SpecCycle)   *)
(***************************************************************************)
\* C1: whenever trading_cycle has passed cleanup_before_trade and goes on to
\* market selection and the entry order, no configured market holds a
\* non-flat position and no order is open, whatever the exchange did during
\* the cleanup
C1_CleanAfterCleanup ==
    pc = "cleanup_done" => /\ \A m \in MarketSet : exPos[m].amount = 0
                           /\ exOrders = {}

\* C2: total_volume grows only in a cycle whose entry filled and whose
\* position close_position confirmed closed and is flat on the exchange, and
\* each growth is exactly twice the cycle's position_size_usd
C2_VolumeOnlyAfterConfirmedClose ==
    [][total_volume' # total_volume
         => /\ entry_price # 0
            /\ position_closed
            /\ exPos[market].amount = 0
            /\ total_volume' = total_volume + 2 * size_usd]_vars

\* C6: when _wait_for_order_fill returned None, trading_cycle returns False at
\* once: set_position_tpsl, _hold_position and close_position were not and are
\* not called in the cycle, and total_volume, total_pnl and trades_count keep
\* their values
C6_NoFillSkipsRestOfCycle ==
    [][(pc = "cycle_after_wait" /\ wf_result = 0)
         => /\ pc' = Head(stack)
            /\ cycle_result' = FALSE
            /\ cycle_calls' = cycle_calls
            /\ cycle_calls \cap {"set_position_tpsl", "_hold_position", "close_position"} = {}
            /\ UNCHANGED <<total_volume, total_pnl, trades_count, exPos, exOrders, exTpsl>>]_vars

\* a cycle that returned after a wait without a fill
C6_Witness ==
    /\ pc = "returned"
    /\ "_wait_for_order_fill" \in cycle_calls
    /\ "set_position_tpsl" \notin cycle_calls
    /\ ~cycle_result
    /\ total_volume = 0 /\ total_pnl = 0 /\ trades_count = 0

(***************************************************************************)
(* Claims about run (under SpecRun)                                        *)
(***************************************************************************)
\* C10: run calls trading_cycle and places an order only once a positive
\* balance has been read; when none of the max_attempts reads of the balance
\* is positive, run returns, having called neither
C10_NoBalanceNoTrading ==
    /\ cached_balance = 0 => run_calls = {}
    /\ pc = "run_balance" => balance_attempt < max_attempts
    /\ pc = "run_returned" => /\ cached_balance = 0
                              /\ balance_attempt = max_attempts
                              /\ run_calls = {}
                              /\ exOrders = {}
                              /\ \A m \in MarketSet : exPos[m].amount = 0

\* run has returned after max_attempts reads without a positive balance
C10_Witness == pc = "run_returned" /\ balance_attempt = max_attempts /\ cached_balance = 0

\* C11: a cycle that returned False or raised never ends the main loop: the
\* handler of line 1794 and the False result both lead back to the loop test,
\* which starts another cycle while total_volume < target_volume; the final
\* pass begins only with the target reached
C11_FailedCycleContinuesLoop ==
    [][/\ (pc = "run_after_cycle" /\ ~cycle_result /\ total_volume < target_volume)
            => pc' = "run_loop"
       /\ pc = "run_except" => pc' = "run_loop"
       /\ (pc = "run_loop" /\ total_volume < target_volume /\ pc' # pc)
            => /\ pc' = "trading_cycle"
               /\ Head(stack') = "run_after_cycle"
       /\ (pc = "cleanup_done" /\ pc' \notin {"cleanup_done", "_wait_for_order_fill"})
            => pc' \in {"run_after_cycle", "run_except"}
       /\ pc' = "run_final" => total_volume' >= target_volume]_vars

\* a further cycle is started after a cycle that placed its entry order and
\* recorded no trade
C11_Witness ==
    /\ pc = "trading_cycle"
    /\ "place_order" \in run_calls
    /\ trades_count = 0
    /\ total_volume < target_volume

\* C12: when run has made its final pass (cancel_all_orders, then
\* close_all_positions, then the verification poll with close_position for
\* each position it lists, then cancel_all_orders) and terminates, no
\* configured market holds a position and no order is open
C12_FlatAfterFinalPass ==
    pc = "run_completed" => /\ \A m \in MarketSet : exPos[m].amount = 0
                            /\ exOrders = {}

\* C13: an empty positions list is never taken as success: when
\* _hold_position ends the hold because it found no position of the market,
\* and when close_position finds the position closed at its re-poll, the
\* market is flat on the exchange
C13_EmptyResultNeverSuccess ==
    /\ (pc = "cycle_close" /\ hold_exit = "no_position") => exPos[market].amount = 0
    /\ (pc = "cycle_after_close" /\ position_closed) => exPos[close_symbol].amount = 0

\* the attempts of the finished query that did not meet a block
gw_unblocked == {i \in 1..gw_retries : gw_outs[i] # "blocked"}

\* the first of them
gw_first_unblocked == CHOOSE i \in gw_unblocked : \A j \in gw_unblocked : i <= j

\* C14: get_positions returns a list whatever its attempts meet: the live
\* positions when an attempt succeeds, and the empty list otherwise, after
\* exactly `retries` attempts when every one of them was blocked and at once,
\* with no further attempt, at the first error that is not a block.
C14_GetPositionsDegradesToEmpty ==
    (pc = "gateway_done" /\ gw_query = "get_positions") =>
        /\ gw_result.attempts <= gw_retries
        /\ gw_result.value \in {<<>>, live_positions}
        /\ gw_unblocked = {} => gw_result.value = <<>> /\ gw_result.attempts = gw_retries
        /\ gw_unblocked # {} =>
             /\ gw_result.attempts = gw_first_unblocked
             /\ gw_result.value =
                  IF gw_outs[gw_first_unblocked] = "ok" THEN live_positions ELSE <<>>

C14_Witness ==
    /\ pc = "gateway_done" /\ gw_query = "get_positions"
    /\ gw_retries = MaxRetries
    /\ gw_outs[1] = "blocked" /\ gw_outs[2] = "error" /\ gw_outs[3] = "ok"
    /\ live_positions # <<>>
    /\ gw_result = [value |-> <<>>, attempts |-> 2]

\* C19: every gateway query makes a further attempt after an attempt that
\* met a block: when the first attempt is blocked and the second would
\* succeed, the query (called with at least two attempts where it takes a
\* retries argument) makes the second attempt.
C19_EveryQueryRetriesBlock ==
    (/\ pc = "gateway_done"
     /\ gw_outs[1] = "blocked" /\ gw_outs[2] = "ok"
     /\ gw_query \in RetryingQueries => gw_retries >= 2)
        => gw_result.attempts >= 2

\* the attempts of a finished get_prices that met an exception which is
\* neither a timeout nor a block, with no successful attempt before them
gw_price_errors ==
    {i \in 1..gw_retries : gw_outs[i] = "error" /\ \A j \in 1..(i - 1) : gw_outs[j] # "ok"}

\* C20: get_prices makes no attempt after one that met an exception which is
\* neither a timeout nor a block, and returns the empty list.
C20_OtherExceptionAbortsGetPrices ==
    (pc = "gateway_done" /\ gw_query = "get_prices" /\ gw_price_errors # {}) =>
        /\ gw_result.value = "none"
        /\ \A i \in gw_price_errors : gw_result.attempts <= i

\* C15: whatever the balance, the sampled fraction and the fee rate, the
\* unleveraged notional of the entry is at most balance * 0.95 / (1 + 2 *
\* fee_rate), and the notional of the order is that base times
\* current_leverage.
C15_BaseNotionalCapped ==
    pc = "sizing_done" =>
        /\ sz_base * (10000 + 2 * fee_rate(use_maker_orders)) <= cached_balance * 9500
        /\ size_usd = sz_base * current_leverage

\* balance 1000, fraction 0.8, leverage 5, maker fee 0.0002: base 800, notional 4000
C15_Witness ==
    /\ pc = "sizing_done"
    /\ cached_balance = 100000 /\ sz_percent = 8 /\ current_leverage = 5 /\ use_maker_orders
    /\ sz_base = 80000 /\ size_usd = 400000

\* C16: for a lot size above 0 round_to_lot returns a non-negative multiple
\* of the lot size that is no greater than the amount, and for lot size 0 it
\* returns the amount itself.
C16_RoundToLotTruncates ==
    pc = "round_to_lot_done" =>
        IF rl_lot_size > 0
          THEN rl_result >= 0 /\ rl_result % rl_lot_size = 0 /\ rl_result <= rl_amount
          ELSE rl_result = rl_amount

\* the signed price change of the poll reaches a threshold: up by
\* current_take_profit or down by current_stop_loss for a long, the reverse
\* for a short (rates in units of 0.0001)
C17_price_change == IF side = "bid" THEN hold_price - entry_price ELSE entry_price - hold_price

\* C17: a poll of _hold_position that saw the position and read a price
\* whose signed change from the entry price is at least current_take_profit
\* or at most -current_stop_loss ends the hold at that poll, before
\* hold_time has elapsed; the hold goes on to its sleep only when the price
\* was not read or is within both thresholds.
C17_ThresholdEndsHold ==
    /\ (/\ pc = "cycle_close" /\ hold_exit # "no_position" /\ hold_price # 0
        /\ \/ C17_price_change * 10000 >= current_take_profit * entry_price
           \/ C17_price_change * 10000 <= -(current_stop_loss * entry_price))
          => hold_exit = "threshold" /\ hold_elapsed < hold_time
    /\ (pc = "hold_sleep" /\ hold_price # 0)
          => /\ C17_price_change * 10000 < current_take_profit * entry_price
             /\ C17_price_change * 10000 > -(current_stop_loss * entry_price)

\* a short whose price rose by the stop loss ends its hold at the poll
C17_Witness ==
    /\ pc = "cycle_close" /\ hold_exit = "threshold" /\ hold_elapsed < hold_time
    /\ side = "ask" /\ hold_price > entry_price

\* the run statistics
C18_statistics == <<total_volume, total_pnl, trades_count>>

\* C18: total_volume, total_pnl and trades_count never decrease, and a step
\* changes them only inside trading_cycle, after its close_position call
\* returned True.
C18_StatisticsMonotonic ==
    [][/\ total_volume' >= total_volume
       /\ total_pnl' >= total_pnl
       /\ trades_count' >= trades_count
       /\ C18_statistics' # C18_statistics =>
            pc = "cycle_exit_sleep" /\ close_result /\ "close_position" \in cycle_calls]_vars

\* C18 as the code has it: total_volume and trades_count never decrease; a
\* step changes the statistics only inside trading_cycle, after its
\* close_position call returned True, and then it counts one trade, adds
\* twice the order notional to total_volume and adds the trade's result net
\* of fees, of either sign, to total_pnl.
C18_VolumeAndCountMonotonic ==
    [][/\ total_volume' >= total_volume
       /\ trades_count' >= trades_count
       /\ C18_statistics' # C18_statistics =>
            /\ pc = "cycle_exit_sleep" /\ close_result /\ "close_position" \in cycle_calls
            /\ trades_count' = trades_count + 1
            /\ total_volume' = total_volume + 2 * size_usd
            /\ \E exit_price \in MarkPrices :
                 total_pnl' = total_pnl + _calculate_pnl(entry_price, exit_price, size_usd, side)]_vars

\* a recorded trade that made total_pnl fall below its initial 0
C18_Witness == trades_count = 1 /\ total_volume > 0 /\ total_pnl < 0

\* the orders a step adds to the book
C21_placed == {o \in exOrders' : o.id \notin {q.id : q \in exOrders}}

\* C21: an order close_position places is reduce-only, on the side opposite
\* to the live position and for the amount of the live position; every
\* other order the program places has reduce_only = False.
C21_CloseOrderMatchesPosition ==
    [][\A o \in C21_placed :
         IF pc = "close_position"
           THEN /\ o.reduce_only
                /\ o.symbol = close_symbol
                /\ o.side = (IF exPos[close_symbol].amount > 0 THEN "ask" ELSE "bid")
                /\ o.initial = Abs(exPos[close_symbol].amount)
           ELSE ~o.reduce_only]_vars

\* C22: a trading_cycle starts with cleanup_before_trade whatever the volume
\* is: close_all_positions first, cancel_all_orders once it has returned,
\* and only then the target check and the entry; no order that is not
\* reduce-only is placed while the cleanup runs.
C22_CleanupFirst ==
    [][/\ (pc = "trading_cycle" /\ pc' # pc) =>
            pc' = "close_all_positions" /\ Head(stack') = "cleanup_sleep"
       /\ (pc' = "cleanup_sleep" /\ pc # pc') => pc \in {"close_all_positions", "close_all_next"}
       /\ (pc = "cleanup_sleep" /\ pc' # pc) => pc' = "cleanup_done"
       /\ (pc' = "cleanup_done" /\ pc # pc') => pc = "cleanup_sleep"
       /\ ("place_order" \in cycle_calls' /\ "place_order" \notin cycle_calls) =>
            pc = "cleanup_done" /\ "cleanup_before_trade" \in cycle_calls
       /\ (\E o \in exOrders' : ~o.reduce_only /\ o.id \notin {q.id : q \in exOrders}) =>
            pc \in {"cleanup_done", "wait_reposition"}]_vars

\* the cleanup of a cycle that began with the target already met has run
C22_Witness ==
    pc = "cleanup_done" /\ total_volume >= target_volume /\ cycle_calls = {"cleanup_before_trade"}

C25_open == {o \in exOrders : o.id = order_id}
C25_history == {h \in exHistory : h.id = order_id}

C26_FailedQueryContinues ==
    poll_failure # "" =>
        /\ pc \in {"wait_sleep", "wait_reposition"}
        /\ wf_exit = "" /\ wf_result = 0

\* the open-orders query failed while the order was already filled and in
\* the history, and the wait goes on
C26_Witness ==
    /\ poll_failure = "open_orders" /\ pc = "wait_sleep"
    /\ \E h \in exHistory : h.id = order_id /\ h.filled = h.initial

\* C27: when the primary request of set_leverage was rejected, the values
\* tried afterwards lie above it, up to max_leverage, when a position was
\* open at the call, and below it, down to 1, when none was; and the call
\* returns True when one of them was accepted and False otherwise,
\* including when there was no value to try.
C27_ScanDirectionAndResult ==
    (sl_returned /\ lev_requests # {} /\ ~primary_accepted)
        => /\ sl_result \in {"True", "False"}
           /\ \A r \in lev_requests :
                r.value # primary_request
                    => IF floor_at_call # 0
                         THEN /\ r.value > primary_request
                              /\ r.value <= market_max_leverage(symbol)
                         ELSE /\ r.value < primary_request
                              /\ r.value >= 1

\* C28: the value of every primary update_leverage request lies between 1
\* and the market's max_leverage, whatever value was requested and whether
\* or not the market metadata could be fetched.
C28_PrimaryWithinLimits ==
    lev_requests # {}
        => /\ primary_request >= 1
           /\ primary_request <= market_max_leverage(symbol)

\* C29: a poll of _hold_position made while the market has no position ends
\* the monitoring at once, with no price read and no sleep; a poll that ends
\* nothing is followed by a sleep of hold_check_interval seconds, and the
\* hold ends for time exactly when the seconds slept reach hold_time.
C29_HoldEndsOnAbsenceOrTime ==
    [][/\ (pc = "hold_poll" /\ exPos[market].amount = 0)
            => /\ pc' = "cycle_close"
               /\ hold_exit' = "no_position"
               /\ hold_price' = 0
               /\ hold_elapsed' = hold_elapsed
       /\ pc = "hold_sleep"
            => /\ hold_elapsed' = hold_elapsed + hold_check_interval
               /\ (pc' = "cycle_close") = (hold_elapsed' >= hold_time)
               /\ (pc' = "cycle_close") = (hold_exit' = "time")
               /\ pc' \in {"cycle_close", "hold_poll"}
       /\ (pc' = "cycle_close" /\ hold_exit' = "time")
            => hold_elapsed' = hold_time]_<<pc, hold_elapsed, hold_exit, hold_price>>

\* the position went away during the hold and the next poll ended it
C29_Witness ==
    /\ pc = "cycle_close" /\ hold_exit = "no_position"
    /\ hold_elapsed > 0 /\ hold_elapsed < hold_time
    /\ exPos[market].amount = 0

\* C30: a set_position_tpsl that returned False does not end the cycle: the
\* cycle goes from it into _hold_position, whose polls compare the price
\* with the local take profit and stop loss, and from the hold to
\* close_position.
C30_FailedTpslGoesOn ==
    /\ [](tp_sl_set = "False"
            => /\ "_hold_position" \in cycle_calls
               /\ \/ pc \in {"hold_poll", "hold_sleep", "cycle_close"}
                  \/ "close_position" \in cycle_calls
               /\ (pc = "hold_sleep" /\ hold_price # 0)
                     => ~threshold_hit(hold_price, entry_price, side))
    /\ [][(pc = "cycle_tpsl_sleep" /\ pc' # pc)
            => /\ pc' \in {"hold_poll", "cycle_close"}
               /\ tp_sl_set' \in {"True", "False"}
               /\ "_hold_position" \in cycle_calls']_vars

\* the TP/SL request failed, the hold ran and close_position has closed the
\* position
C30_Witness ==
    /\ tp_sl_set = "False"
    /\ pc = "cycle_after_close" /\ close_result
    /\ {"_hold_position", "close_position"} \subseteq cycle_calls
    /\ market \notin exTpsl

\* the call of _wait_for_order_fill was for a market order with an order id
C31_market_call == limit_price = 0 /\ order_result.order_id # 0

\* C31: for a market order _wait_for_order_fill makes one attempt: it
\* returns the positive price of the placement response when there is one,
\* otherwise the entry price of the market's non-flat position read once,
\* otherwise None; it never enters the polling loop, never repositions and
\* never cancels.
C31_MarketOrderSingleAttempt ==
    C31_market_call
        => /\ pc \in {"_wait_for_order_fill", "returned"}
           /\ cancel_requests = <<>> /\ repositions = 0
           /\ elapsed = 0 /\ total_elapsed = 0
           /\ pc = "returned"
                => /\ wf_exit \in {"market_response", "market_position", "market_none"}
                   /\ order_result.price > 0
                        => (wf_exit = "market_response" /\ wf_result = order_result.price)
                   /\ wf_exit = "market_position"
                        => /\ exPos[market].amount # 0
                           /\ wf_result = exPos[market].entry_price
                   /\ wf_exit = "market_none" => wf_result = 0
                   /\ (order_result.price = 0 /\ exPos[market].amount = 0)
                        => wf_exit = "market_none"

\* a market order whose response carried no price, answered from the position
C31_Witness ==
    /\ C31_market_call /\ pc = "returned"
    /\ order_result.price = 0
    /\ wf_exit = "market_position" /\ wf_result = exPos[market].entry_price

\* the markets whose funding lookup gave a rate, and the place of a market in
\* the configured list
C32_succeeded == {m \in MarketSet : funding_seen[m].ok /\ ~funding_seen[m].raised}
C32_index(m) == CHOOSE i \in 1..Len(Markets) : Markets[i] = m

\* C32: select_best_market returns a configured market whose lookup
\* succeeded and whose |funding rate| is the largest among those, the
\* earliest configured one when several share it, and the first configured
\* market when no lookup succeeded.
C32_BestMarketLargestFunding ==
    pc = "select_best_market_done"
        => IF C32_succeeded = {}
             THEN selected_market = Markets[1]
             ELSE /\ selected_market \in C32_succeeded
                  /\ \A m \in C32_succeeded :
                       /\ Abs(funding_seen[m].rate) <= Abs(funding_seen[selected_market].rate)
                       /\ Abs(funding_seen[m].rate) = Abs(funding_seen[selected_market].rate)
                            => C32_index(selected_market) <= C32_index(m)

\* two markets with rates of the same size and opposite signs: the first is
\* returned
C32_Witness ==
    /\ pc = "select_best_market_done"
    /\ funding_seen[Markets[1]].ok /\ funding_seen[Markets[1]].rate = -2
    /\ funding_seen[Markets[2]].ok /\ funding_seen[Markets[2]].rate = 2
    /\ selected_market = Markets[1]

\* C33: determine_side returns ask for a funding rate above zero and bid for
\* a rate of zero or below; when get_funding_rate gave None it returns None,
\* and the cycle then returns False at once: no order is placed and the
\* exchange is not touched. An order the cycle places carries the side
\* determined.
C33_SideFollowsFunding ==
    [][determined_side' # determined_side /\ determined_side' # "unset"
         => LET f == funding_seen'[selected_market']
            IN /\ f.ok => determined_side' = (IF f.rate > 0 THEN "ask" ELSE "bid")
               /\ (~f.ok /\ ~f.raised) => determined_side' = ""
               /\ determined_side' = ""
                    => /\ pc' = Head(stack) /\ stack' = Tail(stack)
                       /\ cycle_result' = FALSE
                       /\ exOrders' = exOrders /\ exPos' = exPos
                       /\ "place_order" \notin cycle_calls'
                       /\ run_calls' = run_calls
               /\ "place_order" \in cycle_calls'
                    => determined_side' \in Sides
               /\ side' # "" => side' = determined_side']_vars

\* a rate of zero gave bid and the entry order was placed on that side
C33_Witness ==
    /\ determined_side = "bid"
    /\ funding_seen[selected_market].ok /\ funding_seen[selected_market].rate = 0
    /\ side = "bid" /\ market = selected_market
    /\ \E o \in exOrders : o.symbol = market /\ o.side = "bid"

\* C34: a trading_cycle calls get_balance only when there is no cached
\* balance, and a positive cached_balance is never replaced: with it in
\* place no cycle queries the account balance again.
C34_BalanceCachedAcrossCycles ==
    [][/\ ("get_balance" \in cycle_calls' /\ "get_balance" \notin cycle_calls)
            => cached_balance = 0
       /\ cached_balance > 0 => cached_balance' = cached_balance
       /\ (cached_balance = 0 /\ "place_order" \in cycle_calls')
            => ("get_balance" \in cycle_calls' /\ cached_balance' > 0)]_vars

\* a cycle that found no cached balance asked for it, cached it and went on
\* to its entry order
C34_Witness ==
    /\ "get_balance" \in cycle_calls /\ "_wait_for_order_fill" \in cycle_calls
    /\ cached_balance = Balance

\* the entry orders resting on the exchange
C35_resting == {o \in exOrders : ~o.reduce_only}

\* C35: while _wait_for_order_fill reconciles the fill, at most one entry
\* order of the cycle rests on the exchange: the replacement order is on the
\* book only when the stale order is no longer there.
C35_OneEntryOrderLive ==
    Cardinality(C35_resting) <= 1

\* C36: once _wait_for_order_fill has returned a fill price, no entry order
\* of the cycle is open on the exchange any more: a partly filled order seen
\* through the position query is not left resting.
C36_NoEntryOrderAfterFill ==
    (wf_exit # "" /\ wf_result > 0) =>
        {o \in exOrders : ~o.reduce_only /\ o.symbol = market} = {}

\* C37: close_position returns True from its re-poll only when that re-poll,
\* taken 2 s after the close order was placed, showed the position flat; a
\* position still open at the re-poll is not reported as closed.
C37_TrueOnlyWhenFlat ==
    [][(pc = "close_position_sleep" /\ close_result') => position_closed']_vars

\* C38: when trading_cycle places an entry order sized with current_leverage,
\* current_leverage is the leverage the exchange holds for the selected
\* market, whatever run's setup loop and set_leverage did before.
C38_SizingLeverageIsApplied ==
    [][(pc = "cleanup_done" /\ pc' = "_wait_for_order_fill")
         => current_leverage = exLev[market']]_vars

\* the passes of the polling loop that max_wait allows
C39_max_polls == max_wait \div check_interval

\* C39: the polling loop of a limit order ends for every sequence of exchange
\* responses: a poll is taken only at total_elapsed = 0, 5, ..., below
\* max_wait, so at most max_wait / check_interval polls; total_elapsed never
\* goes back, not even at a reposition, and grows between two polls; the
\* call returns, with a fill price or with None after the timeout.
C39_PollingTerminates ==
    /\ [](pc = "wait_poll" =>
            \E k \in 0..(C39_max_polls - 1) : total_elapsed = k * check_interval)
    /\ [][total_elapsed' >= total_elapsed]_vars
    /\ [][(pc = "wait_sleep" /\ pc' = "wait_poll") => total_elapsed' > total_elapsed]_vars
    /\ [](wf_exit \in {"timeout", "reposition_failed"} => wf_result = 0)
    /\ (pc = "_wait_for_order_fill") ~> (pc = "returned" /\ wf_exit # "" /\ wf_result >= 0)

\* the loop used up max_wait after a reposition had reset elapsed
C39_Witness ==
    /\ wf_exit = "timeout" /\ repositioned
    /\ total_elapsed = max_wait /\ elapsed < total_elapsed

\* run has left its main loop: it is in its final pass or has completed
C40_left_loop ==
    \/ pc \in {"run_final", "run_final_sleep", "run_final_check", "run_final_next",
               "run_completed"}
    \/ \E i \in 1..Len(stack) : stack[i] \in {"run_final_check", "run_final_next"}

\* C40: once run has read a positive balance it leaves its main loop, and
\* completes, only with total_volume >= target_volume, and trading_cycle's
\* result is True only in such a state.
C40_LeavesLoopOnlyAtTarget ==
    /\ C40_left_loop => (cached_balance > 0 /\ total_volume >= target_volume)
    /\ cycle_result => total_volume >= target_volume

\* run completed with the target reached by a recorded trade
C40_Witness ==
    /\ pc = "run_completed"
    /\ cycle_result /\ trades_count > 0
    /\ total_volume >= target_volume

====
